---- MODULE Spec2Model ----
(***************************************************************************)
(* A model of libkpa's decision core: the sliding-window scaling algorithm *)
(* (algorithm/sliding_window.go) with its scale-down delay window          *)
(* (delaywindow/delaywindow.go), and the multi-scaler manager              *)
(* (manager/manager.go).                                                   *)
(*                                                                         *)
(* Times are whole Unix seconds.  The float64 configuration values are     *)
(* kept as exact fractions <<numerator, denominator>>; with the small      *)
(* integers used here the float64 arithmetic of the source is exact, so    *)
(* ceil and floor are computed on the fractions.                           *)
(***************************************************************************)
EXTENDS Integers, Sequences, FiniteSets, TLC

\* ------------------------------------------------------------------ bounds

\* The clock runs over 0..MaxTime.
MaxTime == 6
\* The clock of the scaler with a scale-down delay runs over 0..MaxDelayTime.
MaxDelayTime == 12
\* The clock of the scaler whose calls are logged per second runs over 0..MaxLogTime.
MaxLogTime == 9
\* readyPods of a scale call is drawn from 0..MaxReady.
MaxReady == 2
\* Observed metric values are drawn from -1..MaxObs (-1: no data).
MaxObs == 3
\* Under a steady load both observed values are one value of -1..MaxSteady.
MaxSteady == 4

\* Manager: replica bounds passed in run over -1..MaxReplicas, and a scaler
\* recommends 0..MaxDesired pods.
MaxReplicas == 2

MaxDesired == 3

\* Metric windows: values 1..MaxValue are recorded at times 0..MaxWindowTime
\* while the window total stays within MaxTotal.
MaxValue == 2

MaxWindowTime == 9

MaxTotal == 4
\* A scaler with its aggregators is constructed at FirstScalerTime and
\* followed up to MaxScalerTime; the wall clock a call reads is at most
\* MaxWallAhead seconds ahead of the time the host passes.
FirstScalerTime == 6
MaxScalerTime == 9
MaxWallAhead == 7
\* At most MaxUpdates Update calls are followed on one scaler.
MaxUpdates == 1
\* A reconfigured scaler with its aggregators is followed up to MaxUpdateTime.
MaxUpdateTime == 7
\* Two runs of one scaler are followed up to MaxTwinTime; the wall clock read
\* at construction is 0..MaxWall.
MaxTwinTime == 7
MaxWall == 1
\* Two goroutines on one Scaler are followed up to MaxRaceTime.
MaxRaceTime == 7
\* A window fed in any order takes at most MaxRecords values.
MaxRecords == 3
\* A window by itself is resized at most MaxResizes times.
MaxResizes == 2
\* A delay window by itself is recorded into at the times 0..MaxSlotTime.
MaxSlotTime == 8
\* A scaler whose load falls to zero is under load up to MaxLoadTime and is
\* followed up to MaxZeroTime.
MaxLoadTime == 2
MaxZeroTime == 12

\* ------------------------------------------------------- program constants

\* time.Time{}: the zero time, which IsZero() and is before every other time.
ZeroTime == -1

\* scaleDownDelayGranularity, in seconds.
scaleDownDelayGranularity == 2

\* ----------------------------------------------------------------- helpers

Min(a, b) == IF a < b THEN a ELSE b

Max(a, b) == IF a > b THEN a ELSE b

\* math.Floor(n / d) for n >= 0, d > 0.
Floor(n, d) == n \div d

\* math.Ceil(n / d) for n >= 0, d > 0.
Ceil(n, d) == (n + d - 1) \div d

\* time.Time.Truncate(d): round down to a multiple of d.
Truncate(t, d) == t - (t % d)

\* ------------------------------------------------------------ delay window

\* NewDelayWindow(windowSize, granularity): numSlots empty slots.
NewDelayWindow(windowSize, granularity) ==
    LET numSlots == windowSize \div granularity
    IN  [ windowSize       |-> windowSize,
          granularity      |-> granularity,
          numSlots         |-> numSlots,
          slots            |-> [i \in 0..(numSlots - 1) |-> 0],
          slotTimes        |-> [i \in 0..(numSlots - 1) |-> ZeroTime],
          lastRecordedTime |-> ZeroTime ]

\* getSlotIndex: (t.Unix() / granularity) % numSlots.
getSlotIndex(dw, t) == (t \div dw.granularity) % dw.numSlots

\* Record keeping the larger of the values written to a slot for one bucket.
Record_KeepLargest(dw, now, value) ==
    LET truncatedTime == Truncate(now, dw.granularity)
        slot          == (truncatedTime \div dw.granularity) % dw.numSlots
        kept          == IF dw.slotTimes[slot] = truncatedTime /\ dw.slots[slot] > value
                         THEN dw.slots[slot]
                         ELSE value
    IN  [ dw EXCEPT !.slots[slot]       = kept,
                    !.slotTimes[slot]   = truncatedTime,
                    !.lastRecordedTime  = IF truncatedTime > dw.lastRecordedTime
                                          THEN truncatedTime
                                          ELSE dw.lastRecordedTime ]

\* DelayWindow.Record(now, value): last write wins in the slot of now's bucket.
Record(dw, now, value) ==
    LET truncatedTime == Truncate(now, dw.granularity)
        slot          == getSlotIndex(dw, truncatedTime)
    IN  [ dw EXCEPT !.slots[slot]       = value,
                    !.slotTimes[slot]   = truncatedTime,
                    !.lastRecordedTime  = IF truncatedTime > dw.lastRecordedTime
                                          THEN truncatedTime
                                          ELSE dw.lastRecordedTime ]

\* The test with the window starting a whole window before now.
SlotInWindow_WholeSpan(dw, i, now) ==
    LET windowStart == now - dw.windowSize
    IN  /\ dw.slotTimes[i] # ZeroTime
        /\ ~(dw.slotTimes[i] < windowStart)
        /\ ~(dw.slotTimes[i] > now)

\* The test CurrentMax applies to slot i: a set time within [windowStart, now].
SlotInWindow(dw, i, now) ==
    LET windowStart == now - dw.windowSize + dw.granularity
    IN  /\ dw.slotTimes[i] # ZeroTime
        /\ ~(dw.slotTimes[i] < windowStart)
        /\ ~(dw.slotTimes[i] > now)

\* The scan of CurrentMax from slot i on, maxValue being the largest so far.
RECURSIVE ScanSlots(_, _, _, _)
ScanSlots(dw, now, i, maxValue) ==
    IF i >= dw.numSlots
    THEN maxValue
    ELSE ScanSlots(dw, now, i + 1,
                   IF SlotInWindow(dw, i, now) /\ dw.slots[i] > maxValue
                   THEN dw.slots[i]
                   ELSE maxValue)

\* DelayWindow.CurrentMax(): the largest value of a slot in the window that
\* ends at the latest recorded time, 0 if there is none.  With nothing
\* recorded the source takes time.Now() for now; every slot time is then zero
\* and the result is 0 whatever the clock says, so any now serves.
CurrentMax(dw) == ScanSlots(dw, dw.lastRecordedTime, 0, 0)

\* The test Resize applies to slot i of the old ring: a set time within
\* [windowStart, now] of the new window.
SlotInNewWindow(dw, i, newWindowSize, now) ==
    LET windowStart == now - newWindowSize + dw.granularity
    IN  /\ dw.slotTimes[i] # ZeroTime
        /\ ~(dw.slotTimes[i] < windowStart)
        /\ ~(dw.slotTimes[i] > now)

\* The copy loop of Resize from slot i of the old ring on: new is the new
\* ring so far, its slots and their times.
RECURSIVE CopySlots(_, _, _, _, _)
CopySlots(dw, newWindowSize, now, i, new) ==
    IF i >= dw.numSlots
    THEN new
    ELSE IF SlotInNewWindow(dw, i, newWindowSize, now)
    THEN LET slotNumber == dw.slotTimes[i] \div dw.granularity
             newSlot    == slotNumber % Cardinality(DOMAIN new.slots)
         IN  CopySlots(dw, newWindowSize, now, i + 1,
                       [ slots     |-> [new.slots EXCEPT ![newSlot] = dw.slots[i]],
                         slotTimes |-> [new.slotTimes EXCEPT ![newSlot] = dw.slotTimes[i]] ])
    ELSE CopySlots(dw, newWindowSize, now, i + 1, new)

\* DelayWindow.Resize(newWindowSize), for a positive multiple of the
\* granularity (the source panics on any other).  With nothing recorded the
\* source takes time.Now() for now; no slot has a time then and none is
\* copied, whatever the clock says.
Resize(dw, newWindowSize) ==
    LET newNumSlots == newWindowSize \div dw.granularity
        copied == CopySlots(dw, newWindowSize, dw.lastRecordedTime, 0,
                            [ slots     |-> [i \in 0..(newNumSlots - 1) |-> 0],
                              slotTimes |-> [i \in 0..(newNumSlots - 1) |-> ZeroTime] ])
    IN  IF newNumSlots = dw.numSlots
        THEN [ dw EXCEPT !.windowSize = newWindowSize ]
        ELSE [ dw EXCEPT !.windowSize = newWindowSize,
                         !.numSlots   = newNumSlots,
                         !.slots      = copied.slots,
                         !.slotTimes  = copied.slotTimes ]

\* ------------------------------------------------------ metrics.TimeWindow

\* metrics.NewTimeWindow(window, granularity): ceil(window / granularity)
\* empty buckets.  kind is the implementation: "linear" (TimeWindow) or
\* "weighted" (WeightedTimeWindow, which embeds a TimeWindow).
MetricsNewTimeWindow(kind, window, granularity) ==
    LET numBuckets == (window + granularity - 1) \div granularity
    IN  [ kind        |-> kind,
          buckets     |-> [i \in 0..(numBuckets - 1) |-> 0],
          firstWrite  |-> ZeroTime,
          lastWrite   |-> ZeroTime,
          granularity |-> granularity,
          window      |-> window,
          windowTotal |-> 0 ]

\* len(t.buckets)
NumBuckets(t) == Cardinality(DOMAIN t.buckets)

\* timeToIndex: tm.Unix() / granularity.
timeToIndex(t, tm) == tm \div t.granularity

\* The clearing loop with windowTotal left as it was.
RECURSIVE ClearBuckets_TotalKept(_, _, _, _)
ClearBuckets_TotalKept(buckets, windowTotal, i, writeIdx) ==
    IF i > writeIdx
    THEN [ buckets |-> buckets, windowTotal |-> windowTotal ]
    ELSE ClearBuckets_TotalKept(
             [buckets EXCEPT ![i % Cardinality(DOMAIN buckets)] = 0],
             windowTotal, i + 1, writeIdx)

\* The loop of Record that clears the buckets i..writeIdx: the buckets and
\* windowTotal after it.
RECURSIVE ClearBuckets(_, _, _, _)
ClearBuckets(buckets, windowTotal, i, writeIdx) ==
    IF i > writeIdx
    THEN [ buckets |-> buckets, windowTotal |-> windowTotal ]
    ELSE LET idx == i % Cardinality(DOMAIN buckets)
         IN  ClearBuckets([buckets EXCEPT ![idx] = 0], windowTotal - buckets[idx],
                          i + 1, writeIdx)

\* The test of Record that never lets a value through.
olderThanWindow_Never(t, bucketTime) == FALSE

\* "Ignore values older than a window": bucketTime.Add(window).Before(lastWrite).
\* Nothing is before the zero time.
olderThanWindow(t, bucketTime) ==
    t.lastWrite # ZeroTime /\ bucketTime + t.window < t.lastWrite

\* firstWrite after a write to bucketTime: the earlier of the two.
earliestWrite(t, bucketTime) ==
    IF t.firstWrite = ZeroTime \/ t.firstWrite > bucketTime
    THEN bucketTime
    ELSE t.firstWrite

\* The reset taken only for a jump of more than a window.
fullReset_Strict(t, bucketTime) ==
    t.lastWrite = ZeroTime \/ bucketTime - t.lastWrite > t.window

\* "Reset all buckets if we haven't written for a full window":
\* bucketTime.Sub(lastWrite) >= window, which every time is from the zero time.
fullReset(t, bucketTime) ==
    t.lastWrite = ZeroTime \/ bucketTime - t.lastWrite >= t.window

\* TimeWindow.Record(now, value).
MetricsRecord(t, now, value) ==
    LET bucketTime == Truncate(now, t.granularity)
        writeIdx   == timeToIndex(t, now)
        slot       == writeIdx % NumBuckets(t)
    IN  IF t.lastWrite # ZeroTime /\ t.lastWrite = bucketTime
        THEN \* the bucket of the last write: add the value
             [ t EXCEPT !.buckets[slot] = @ + value, !.windowTotal = @ + value ]
        ELSE IF olderThanWindow(t, bucketTime)
        THEN \* older than a window: ignored
             t
        ELSE
        LET firstWrite == earliestWrite(t, bucketTime)
            after == t.lastWrite = ZeroTime \/ bucketTime > t.lastWrite
            reset == fullReset(t, bucketTime)
            cleared ==
                IF after /\ reset
                THEN [ buckets |-> [i \in DOMAIN t.buckets |-> 0], windowTotal |-> 0 ]
                ELSE IF after
                THEN ClearBuckets(t.buckets, t.windowTotal,
                                  timeToIndex(t, t.lastWrite) + 1, writeIdx)
                ELSE [ buckets |-> t.buckets, windowTotal |-> t.windowTotal ]
        IN  [ t EXCEPT !.firstWrite  = IF after /\ reset THEN bucketTime ELSE firstWrite,
                       !.lastWrite   = IF after THEN bucketTime ELSE t.lastWrite,
                       !.buckets     = [cleared.buckets EXCEPT ![slot] = @ + value],
                       !.windowTotal = cleared.windowTotal + value ]

\* The emptiness test taking a write a whole window old for no data.
isEmptyLocked_AtWindow(t, now) == t.lastWrite = ZeroTime \/ now - t.lastWrite >= t.window

\* isEmptyLocked: now.Sub(lastWrite) > window; the zero time is further than
\* any window before every now.
isEmptyLocked(t, now) == t.lastWrite = ZeroTime \/ now - t.lastWrite > t.window

\* TimeWindow.IsEmpty(now).
IsEmpty(t, now) == isEmptyLocked(t, Truncate(now, t.granularity))

\* The sum of buckets[i % len] for i in from..to.
RECURSIVE SumBuckets(_, _, _)
SumBuckets(buckets, from, to) ==
    IF from > to
    THEN 0
    ELSE buckets[from % Cardinality(DOMAIN buckets)] + SumBuckets(buckets, from + 1, to)

\* WindowAverage taking the whole window whatever the time since the last write.
LinearWindowAverage_GapKept(t, now) ==
    LET truncated == Truncate(now, t.granularity)
        written   == ((t.lastWrite - t.firstWrite) \div t.granularity) + 1
    IN  IF isEmptyLocked(t, truncated) \/ truncated - t.lastWrite >= t.window
        THEN << 0, 1 >>
        ELSE << t.windowTotal, Min(written, NumBuckets(t)) >>

\* TimeWindow.WindowAverage(now), as the fraction <<total, numBuckets>>.
LinearWindowAverage(t, now) ==
    LET truncated == Truncate(now, t.granularity)
        d         == truncated - t.lastWrite
        written   == ((t.lastWrite - t.firstWrite) \div t.granularity) + 1
    IN  IF isEmptyLocked(t, truncated)
        THEN << 0, 1 >>
        ELSE IF d <= 0
        THEN << t.windowTotal, Min(written, NumBuckets(t)) >>
        ELSE IF d < t.window
        THEN LET startIdx == timeToIndex(t, t.lastWrite)
                 endIdx   == timeToIndex(t, truncated)
             IN  << t.windowTotal - SumBuckets(t.buckets, startIdx + 1, endIdx),
                    Min(written, NumBuckets(t) - (endIdx - startIdx)) >>
        ELSE << 0, 1 >>

\* b to the power e.
RECURSIVE Pow(_, _)
Pow(b, e) == IF e = 0 THEN 1 ELSE b * Pow(b, e - 1)

\* computeSmoothingCoeff(numBuckets): the decay speed of a weighted window, a
\* fraction in (0, 1] that decreases as the bucket count grows.
computeSmoothingCoeff(nb) == << 2, nb + 1 >>

\* The weighted sum of the numB most recent buckets, newest first, over the
\* common denominator q^totalB: bucket i back from lastWrite weighs
\* p * (q - p)^(numZ + i) / q^(numZ + i + 1).
RECURSIVE WeightedSum(_, _, _, _, _)
WeightedSum(t, c, numZ, numB, i) ==
    IF i >= numB
    THEN 0
    ELSE LET totalB       == NumBuckets(t)
             startIdx     == timeToIndex(t, t.lastWrite) + totalB
             effectiveIdx == (startIdx - i) % totalB
         IN  t.buckets[effectiveIdx] * c[1] * Pow(c[2] - c[1], numZ + i)
                                     * Pow(c[2], totalB - 1 - numZ - i)
             + WeightedSum(t, c, numZ, numB, i + 1)

\* WeightedTimeWindow.WindowAverage(now), as a fraction.
WeightedWindowAverage(t, now) ==
    LET truncated == Truncate(now, t.granularity)
        totalB    == NumBuckets(t)
        c         == computeSmoothingCoeff(totalB)
        numZ      == IF truncated > t.lastWrite
                     THEN (truncated - t.lastWrite) \div t.granularity
                     ELSE 0
    IN  IF isEmptyLocked(t, truncated)
        THEN << 0, 1 >>
        ELSE << WeightedSum(t, c, numZ, totalB - numZ, 0), Pow(c[2], totalB) >>

\* MetricAggregator.WindowAverage(now) of either implementation.
WindowAverage(t, now) ==
    IF t.kind = "weighted" THEN WeightedWindowAverage(t, now)
                           ELSE LinearWindowAverage(t, now)

\* The copy loop of ResizeWindow: the count most recent buckets, from index
\* tIdx downwards, into a ring of numBuckets buckets.
RECURSIVE CopyBuckets(_, _, _, _)
CopyBuckets(old, new, tIdx, count) ==
    IF count = 0
    THEN new
    ELSE LET oldIdx == tIdx % Cardinality(DOMAIN old)
             newIdx == tIdx % Cardinality(DOMAIN new)
         IN  CopyBuckets(old, [new EXCEPT ![newIdx] = old[oldIdx]], tIdx - 1, count - 1)

\* The copy loop copying one bucket fewer than it should.
ResizedBuckets_OneShort(t, numBuckets) ==
    CopyBuckets(t.buckets, [i \in 0..(numBuckets - 1) |-> 0],
                timeToIndex(t, t.lastWrite), Min(numBuckets, NumBuckets(t)) - 1)

\* The buckets a resize keeps.
ResizedBuckets(t, numBuckets) ==
    CopyBuckets(t.buckets, [i \in 0..(numBuckets - 1) |-> 0],
                timeToIndex(t, t.lastWrite), Min(numBuckets, NumBuckets(t)))

\* ResizeWindow going on when the window already has the size asked for.
ResizeWindow_Always(t, newWindow, wall) ==
    LET numBuckets == (newWindow + t.granularity - 1) \div t.granularity
        within     == /\ t.lastWrite # ZeroTime
                      /\ Truncate(wall, t.granularity) - t.lastWrite <= t.window
        newBuckets == IF within THEN ResizedBuckets(t, numBuckets)
                      ELSE [i \in 0..(numBuckets - 1) |-> 0]
    IN  [ t EXCEPT !.firstWrite  = IF within
                                   THEN t.lastWrite - (NumBuckets(t) - 1) * t.granularity
                                   ELSE ZeroTime,
                   !.window      = newWindow,
                   !.buckets     = newBuckets,
                   !.windowTotal = SumBuckets(newBuckets, 0, numBuckets - 1) ]

\* TimeWindow.ResizeWindow(newWindow).  wall is what time.Now() returns: the
\* data is copied only if the last write is within the old window of it.
\* Bucket indices are taken modulo the ring size with a non-negative result,
\* as they are for the Unix times of a running program.
ResizeWindow(t, newWindow, wall) ==
    IF newWindow = t.window
    THEN t
    ELSE LET numBuckets == (newWindow + t.granularity - 1) \div t.granularity
             within     == /\ t.lastWrite # ZeroTime
                           /\ Truncate(wall, t.granularity) - t.lastWrite <= t.window
             newBuckets == IF within THEN ResizedBuckets(t, numBuckets)
                           ELSE [i \in 0..(numBuckets - 1) |-> 0]
         IN  [ t EXCEPT !.firstWrite  = IF within
                                        THEN t.lastWrite - (NumBuckets(t) - 1) * t.granularity
                                        ELSE ZeroTime,
                        !.window      = newWindow,
                        !.buckets     = newBuckets,
                        !.windowTotal = SumBuckets(newBuckets, 0, numBuckets - 1) ]

\* --------------------------------------------------- scaler configurations

\* api.AutoscalerConfig.  Rates and the threshold are fractions <<n, d>>;
\* durations are seconds.  Every configuration passes validation: rates > 1,
\* exactly one target positive, StableWindow in [5 s, 600 s], the burst
\* window a percentage in [1, 100] of it, MinScale <= MaxScale when
\* MaxScale > 0, ActivationScale >= 1.
PlainConfig ==
    [ ScaleToZeroGracePeriod |-> 30,
      MaxScaleUpRate   |-> <<2, 1>>,
      MaxScaleDownRate |-> <<2, 1>>,
      TargetValue      |-> 2,
      TotalTargetValue |-> 0,
      BurstThreshold   |-> <<2, 1>>,
      BurstWindowPercentage |-> 40,
      StableWindow     |-> 5,
      ScaleDownDelay   |-> 0,
      MinScale         |-> 0,
      MaxScale         |-> 0,
      ActivationScale  |-> 1 ]

\* Hard bounds and an activation floor, with tighter rates.
BoundedConfig ==
    [ PlainConfig EXCEPT !.MaxScaleUpRate   = <<3, 2>>,
                         !.MaxScaleDownRate = <<3, 2>>,
                         !.MaxScale         = 2,
                         !.ActivationScale  = 3 ]

\* The total-target mode.
TotalConfig ==
    [ PlainConfig EXCEPT !.TargetValue      = 0,
                         !.TotalTargetValue = 1 ]

\* A scale-down delay of two granules, with hard bounds and an activation floor.
DelayConfig ==
    [ PlainConfig EXCEPT !.TargetValue     = 1,
                         !.ScaleDownDelay  = 2 * scaleDownDelayGranularity,
                         !.MinScale        = 1,
                         !.MaxScale        = 3,
                         !.ActivationScale = 2 ]

Configs == { BoundedConfig, TotalConfig }

\* ------------------------------------------------- sliding-window scaler

\* maxScaleUp: int32(math.Ceil(MaxScaleUpRate * readyPodCount)).
MaxScaleUp(cfg, readyPodCount) ==
    Ceil(cfg.MaxScaleUpRate[1] * readyPodCount, cfg.MaxScaleUpRate[2])

\* maxScaleDown rounded up.
MaxScaleDown_Ceil(cfg, readyPodCount) ==
    Ceil(readyPodCount * cfg.MaxScaleDownRate[2], cfg.MaxScaleDownRate[1])

\* maxScaleDown: int32(math.Floor(readyPodCount / MaxScaleDownRate)).
MaxScaleDown(cfg, readyPodCount) ==
    Floor(readyPodCount * cfg.MaxScaleDownRate[2], cfg.MaxScaleDownRate[1])

\* The raw pod count with the total target set against the observed value
\* alone, the ready pods left out.
RawPodCount_NoReady(cfg, readyPodCount, observed) ==
    IF cfg.TargetValue > 0
    THEN Ceil(observed[1], observed[2] * cfg.TargetValue)
    ELSE IF cfg.TotalTargetValue > 0
         THEN Ceil(observed[1], observed[2] * cfg.TotalTargetValue)
         ELSE 0

\* The raw pod count of an observed value, prior to any rate limit: per-pod
\* target first, total target otherwise, 0 when neither is set.  The observed
\* value is a fraction <<n, d>> with d > 0 (a window average).
RawPodCount(cfg, readyPodCount, observed) ==
    IF cfg.TargetValue > 0
    THEN Ceil(observed[1], observed[2] * cfg.TargetValue)
    ELSE IF cfg.TotalTargetValue > 0
         THEN Ceil(readyPodCount * observed[1], observed[2] * cfg.TotalTargetValue)
         ELSE 0

\* The raw count passed on with no rate limit applied.
ApplyScaleLimits_Unlimited(raw, maxScaleDown, maxScaleUp) == raw

\* Apply scale limits: min(max(raw, maxScaleDown), maxScaleUp).
ApplyScaleLimits(raw, maxScaleDown, maxScaleUp) ==
    Min(Max(raw, maxScaleDown), maxScaleUp)

\* The activation floor applied whatever the raw demand.
ApplyActivationScale_NoDemandTest(cfg, raw, desired) ==
    IF cfg.ActivationScale > 1 /\ cfg.ActivationScale > desired
    THEN cfg.ActivationScale
    ELSE desired

\* Apply activation scale: only with ActivationScale > 1 and raw demand > 0.
ApplyActivationScale(cfg, raw, desired) ==
    IF cfg.ActivationScale > 1 /\ raw > 0 /\ cfg.ActivationScale > desired
    THEN cfg.ActivationScale
    ELSE desired

\* The threshold test with > for >=.
IsOverBurstThreshold_Strict(cfg, rawBurstPodCount, readyPodCount) ==
    rawBurstPodCount * cfg.BurstThreshold[2] > cfg.BurstThreshold[1] * readyPodCount

\* isOverBurstThreshold: rawBurstPodCount / readyPodCount >= BurstThreshold.
IsOverBurstThreshold(cfg, rawBurstPodCount, readyPodCount) ==
    rawBurstPodCount * cfg.BurstThreshold[2] >= cfg.BurstThreshold[1] * readyPodCount

\* The exit test with the stable window left out.
StableWindowPassed_NoWindow(cfg, bTime, now) == bTime < now

\* burstTime.Add(StableWindow).Before(now)
StableWindowPassed(cfg, bTime, now) == bTime + cfg.StableWindow < now

\* The switch that updates the burst mode state: the new burstTime,
\* maxBurstPods and inBurstMode.
UpdateBurstMode(cfg, bTime, maxPods, over, now) ==
    LET inBurstMode == bTime # ZeroTime
    IN  IF ~inBurstMode /\ over
        THEN [ burstTime |-> now, maxBurstPods |-> maxPods, inBurstMode |-> TRUE ]
        ELSE IF over
        THEN [ burstTime |-> now, maxBurstPods |-> maxPods, inBurstMode |-> inBurstMode ]
        ELSE IF inBurstMode /\ ~over /\ StableWindowPassed(cfg, bTime, now)
        THEN [ burstTime |-> ZeroTime, maxBurstPods |-> 0, inBurstMode |-> FALSE ]
        ELSE [ burstTime |-> bTime, maxBurstPods |-> maxPods, inBurstMode |-> inBurstMode ]

\* Determine the final desired pod count: in burst mode the higher of the
\* stable and the burst count, never below the high-water mark maxBurstPods.
DesiredInMode(inBurstMode, maxPods, desiredStable, desiredBurst) ==
    IF inBurstMode
    THEN LET d == Max(desiredStable, desiredBurst)
         IN  IF d > maxPods
             THEN [ desired |-> d, maxBurstPods |-> d ]
             ELSE [ desired |-> maxPods, maxBurstPods |-> maxPods ]
    ELSE [ desired |-> desiredStable, maxBurstPods |-> maxPods ]

\* The bounds with the upper one left out.
ApplyScaleBounds_NoMax(cfg, desired) ==
    IF cfg.MinScale > 0 /\ desired < cfg.MinScale THEN cfg.MinScale ELSE desired

\* Apply min/max scale bounds.
ApplyScaleBounds(cfg, desired) ==
    LET raised == IF cfg.MinScale > 0 /\ desired < cfg.MinScale
                  THEN cfg.MinScale ELSE desired
    IN  IF cfg.MaxScale > 0 /\ raised > cfg.MaxScale
        THEN cfg.MaxScale ELSE raised

\* The no-data test with zero taken for no data.
NoData_ZeroIsNoData(observedStableValue, observedBurstValue) ==
    observedStableValue[1] <= 0 \/ observedBurstValue[1] <= 0

\* If no data, the recommendation is invalid.
NoData(observedStableValue, observedBurstValue) ==
    observedStableValue[1] < 0 \/ observedBurstValue[1] < 0

\* maxtimewindow.NewTimeWindow(ScaleDownDelay, scaleDownDelayGranularity):
\* the scaler's delay window, a pointer kept as <<>> (nil) or <<window>>.
NewTimeWindow(cfg) ==
    IF cfg.ScaleDownDelay > 0
    THEN << NewDelayWindow(cfg.ScaleDownDelay, scaleDownDelayGranularity) >>
    ELSE << >>

\* a.maxTimeWindow.Record(now, desiredPodCount), on a non-nil window.
TimeWindowRecord(w, now, value) == << Record(w[1], now, value) >>

\* a.maxTimeWindow.Current(), on a non-nil window.
TimeWindowCurrent(w) == CurrentMax(w[1])

\* SlidingWindowAutoscaler.Scale(snapshot, now) on a scaler whose fields are
\* cfg, bTime (burstTime), maxPods (maxBurstPods) and w (maxTimeWindow): the
\* fields after the call, the recommendation returned, and the values the call
\* computed on its way.
ScaleOutcome(cfg, bTime, maxPods, w, snapshot, now) ==
    LET readyPodCount == IF snapshot.readyPodCount = 0 THEN 1 ELSE snapshot.readyPodCount
        observedStableValue == snapshot.stableValue
        observedBurstValue  == snapshot.burstValue
    IN  IF NoData(observedStableValue, observedBurstValue)
        THEN [ burstTime |-> bTime, maxBurstPods |-> maxPods, maxTimeWindow |-> w,
               rawStable |-> 0, rawBurst |-> 0,
               limitedStable |-> 0, limitedBurst |-> 0,
               desiredStable |-> 0, desiredBurst |-> 0,
               over |-> FALSE, tentative |-> 0, delayed |-> 0,
               rec |-> [ DesiredPodCount |-> 0, ScaleValid |-> FALSE,
                         InBurstMode |-> FALSE ] ]
        ELSE
        LET maxScaleUp   == MaxScaleUp(cfg, readyPodCount)
            maxScaleDown == MaxScaleDown(cfg, readyPodCount)
            rawStablePodCount == RawPodCount(cfg, readyPodCount, observedStableValue)
            rawBurstPodCount  == RawPodCount(cfg, readyPodCount, observedBurstValue)
            limitedStablePodCount ==
                ApplyScaleLimits(rawStablePodCount, maxScaleDown, maxScaleUp)
            limitedBurstPodCount ==
                ApplyScaleLimits(rawBurstPodCount, maxScaleDown, maxScaleUp)
            desiredStablePodCount ==
                ApplyActivationScale(cfg, rawStablePodCount, limitedStablePodCount)
            desiredBurstPodCount ==
                ApplyActivationScale(cfg, rawBurstPodCount, limitedBurstPodCount)
            isOverBurstThreshold ==
                IsOverBurstThreshold(cfg, rawBurstPodCount, readyPodCount)
            mode == UpdateBurstMode(cfg, bTime, maxPods, isOverBurstThreshold, now)
            final == DesiredInMode(mode.inBurstMode, mode.maxBurstPods,
                                   desiredStablePodCount, desiredBurstPodCount)
            window == IF w # << >> THEN TimeWindowRecord(w, now, final.desired) ELSE w
            delayed == IF w # << >> THEN TimeWindowCurrent(window) ELSE final.desired
        IN  [ burstTime |-> mode.burstTime, maxBurstPods |-> final.maxBurstPods,
              maxTimeWindow |-> window,
              rawStable |-> rawStablePodCount, rawBurst |-> rawBurstPodCount,
              limitedStable |-> limitedStablePodCount,
              limitedBurst |-> limitedBurstPodCount,
              desiredStable |-> desiredStablePodCount,
              desiredBurst |-> desiredBurstPodCount,
              over |-> isOverBurstThreshold,
              tentative |-> final.desired, delayed |-> delayed,
              rec |-> [ DesiredPodCount |-> ApplyScaleBounds(cfg, delayed),
                        ScaleValid |-> TRUE,
                        InBurstMode |-> mode.inBurstMode ] ]

\* ------------------------------------------------------------------ state

VARIABLES
    clock,          \* the host's time source: the now of the next call
    config,         \* SlidingWindowAutoscaler.config
    burstTime,      \* SlidingWindowAutoscaler.burstTime (ZeroTime: unset)
    maxBurstPods,   \* SlidingWindowAutoscaler.maxBurstPods
    maxTimeWindow,  \* SlidingWindowAutoscaler.maxTimeWindow (<<>>: nil)
    rec,            \* the recommendation the latest Scale call returned
    call,           \* history: the Scale call just made at this clock reading
    lastOver,       \* history: now of the latest over-threshold call of this burst
    recordedMax,    \* history: per second t, the largest tentative count recorded at t or later (0: none)
    recordedLast,   \* history: per bucket (by its start), the latest tentative count recorded (0: none)
    minReplicas,    \* Manager.minReplicas
    maxReplicas,    \* Manager.maxReplicas
    scalers,        \* Manager.scalers: the names registered
    mcall,          \* history: the Manager.Scale call just made
    stableAggregator,   \* Scaler.stableAggregator (<<>>: no scaler built)
    burstAggregator,    \* Scaler.burstAggregator
    scall,          \* history: the call just made on the Scaler or on the window
    updates,        \* history: the number of Update calls made on the Scaler
    twin,           \* a second run of the scaler on the same inputs
    scaleThread,    \* the goroutine in Scaler.Scale: its position and locals
    recordThread,   \* the goroutine in Scaler.Record: its position and arguments
    linearized,     \* history: the aggregators with every Record applied whole
    mu,             \* the readers-writer locks: holder, readers, waiting writers
    pc              \* the call each goroutine is in, and its next locking step

scalerVars == << config, burstTime, maxBurstPods, maxTimeWindow >>

historyVars == << lastOver, recordedMax, recordedLast >>

managerVars == << minReplicas, maxReplicas, scalers, mcall >>

aggregatorVars == << stableAggregator, burstAggregator, scall >>

\* The variables the algorithm and the manager leave alone.
\* The variables of the runs that go with the first one.
raceVars == << scaleThread, recordThread, linearized >>

lockVars == << mu, pc >>

sideVars == << twin, raceVars, lockVars >>

restVars == << aggregatorVars, updates, sideVars >>

vars == << clock, scalerVars, rec, call, historyVars, managerVars, restVars >>

\* The sign of an observed value, which is all the history keeps of it.
Sign(v) == IF v < 0 THEN -1 ELSE IF v = 0 THEN 0 ELSE 1

Times == 0..Max(Max(Max(MaxTime, MaxDelayTime), MaxScalerTime), MaxZeroTime)

NoRecommendation ==
    [ DesiredPodCount |-> 0, ScaleValid |-> FALSE, InBurstMode |-> FALSE ]

NoCall ==
    [ made |-> FALSE, readyPods |-> 0, stableSign |-> 0, burstSign |-> 0,
      stableValue |-> 0, burstValue |-> 0,
      wasInBurst |-> FALSE, prevBurstTime |-> ZeroTime, prevLastOver |-> ZeroTime,
      prevMaxBurstPods |-> 0,
      rawStable |-> 0, rawBurst |-> 0, limitedStable |-> 0, limitedBurst |-> 0,
      desiredStable |-> 0, desiredBurst |-> 0, tentative |-> 0, delayed |-> 0 ]

\* The history of buckets keeps the bucket starts in
\* (trunc(now) - ScaleDownDelay, trunc(now)].
PruneBuckets(h, cfg, now) ==
    LET bucket == Truncate(now, scaleDownDelayGranularity)
    IN  [ t \in Times |-> IF t > bucket - cfg.ScaleDownDelay /\ t <= bucket
                          THEN h[t] ELSE 0 ]

NoScalerCall == [ op |-> "none" ]

\* No second run.
NoTwin == << >>

\* No goroutines followed inside the Scaler's calls.
NoRace ==
    /\ scaleThread = << >>
    /\ recordThread = << >>
    /\ linearized = << >>

\* No locks followed.
NoLocks ==
    /\ mu = << >>
    /\ pc = << >>

\* One run, its calls made one at a time.
NoSide ==
    /\ twin = NoTwin
    /\ NoRace
    /\ NoLocks

\* No Scaler wraps the algorithm.
NoScaler ==
    /\ stableAggregator = << >>
    /\ burstAggregator = << >>
    /\ scall = NoScalerCall
    /\ updates = 0
    /\ NoSide

NoManagerCall ==
    [ made |-> FALSE, readyPods |-> 0, recs |-> << >>, result |-> 0 ]

\* NewManager(minReplicas, maxReplicas, initialScalers...).
NewManager(minValue, maxValue, initialScalers) ==
    LET minR == IF minValue < 0 THEN 0 ELSE minValue
    IN  /\ minReplicas = minR
        /\ maxReplicas = IF maxValue > 0 /\ maxValue < minR THEN minR ELSE maxValue
        /\ scalers = initialScalers
        /\ mcall = NoManagerCall

\* NewSlidingWindowAutoscaler(cfg), called at time 0: the scaler starts in
\* burst mode (burstTime = time.Now()) with maxBurstPods = 0.  The host makes
\* its first call at firstCall or later.
NewSlidingWindowAutoscaler(cfg, firstCall) ==
    /\ clock = firstCall
    /\ config = cfg
    /\ burstTime = 0
    /\ maxBurstPods = 0
    /\ maxTimeWindow = NewTimeWindow(cfg)
    /\ rec = NoRecommendation
    /\ call = NoCall
    /\ lastOver = ZeroTime
    /\ recordedMax = [ t \in Times |-> 0 ]
    /\ recordedLast = [ t \in Times |-> 0 ]

Init ==
    /\ \E cfg \in Configs : NewSlidingWindowAutoscaler(cfg, 0)
    /\ NewManager(0, 0, {})
    /\ NoScaler

\* metrics.NewMetricSnapshot: the two observed values, fractions, and the
\* ready pod count.
NewMetricSnapshot(stableValue, burstValue, readyPods) ==
    [ readyPodCount |-> readyPods, stableValue |-> stableValue,
      burstValue |-> burstValue ]

\* The effect of SlidingWindowAutoscaler.Scale on the scaler's fields, and
\* the recommendation it returns.
AlgorithmScale(out) ==
    /\ burstTime' = out.burstTime
    /\ maxBurstPods' = out.maxBurstPods
    /\ maxTimeWindow' = out.maxTimeWindow
    /\ rec' = out.rec

\* SlidingWindowAutoscaler.Scale(snapshot, now) with now = clock, called with
\* a snapshot of whole values: the scaler's fields, the recommendation
\* returned and the history of the call, the per-second history apart.
ScaleCall(readyPods, stableValue, burstValue) ==
    \* out is bound by \E over a singleton, so that it is computed once.
    \E out \in { ScaleOutcome(config, burstTime, maxBurstPods, maxTimeWindow,
                               NewMetricSnapshot(<< stableValue, 1 >>,
                                                 << burstValue, 1 >>, readyPods),
                               clock) } :
        LET held == out.rec.ScaleValid /\ maxTimeWindow # << >> IN
        /\ AlgorithmScale(out)
        /\ call' = [ made |-> TRUE, readyPods |-> readyPods,
                     stableSign |-> Sign(stableValue),
                     burstSign |-> Sign(burstValue),
                     stableValue |-> stableValue, burstValue |-> burstValue,
                     wasInBurst |-> burstTime # ZeroTime,
                     prevBurstTime |-> burstTime, prevLastOver |-> lastOver,
                     prevMaxBurstPods |-> maxBurstPods,
                     rawStable |-> out.rawStable, rawBurst |-> out.rawBurst,
                     limitedStable |-> out.limitedStable,
                     limitedBurst |-> out.limitedBurst,
                     desiredStable |-> out.desiredStable,
                     desiredBurst |-> out.desiredBurst,
                     tentative |-> out.tentative, delayed |-> out.delayed ]
        /\ lastOver' = IF out.rec.ScaleValid /\ out.over THEN clock
                       ELSE IF out.burstTime = ZeroTime THEN ZeroTime
                       ELSE lastOver
        /\ recordedLast' =
               IF held
               THEN [ PruneBuckets(recordedLast, config, clock) EXCEPT
                        ![Truncate(clock, scaleDownDelayGranularity)] = out.tentative ]
               ELSE recordedLast
        /\ UNCHANGED << clock, config, managerVars, aggregatorVars, updates >>

\* The host calls Scale with a snapshot and now = clock.
Scale(readyPods, stableValue, burstValue) ==
    /\ ScaleCall(readyPods, stableValue, burstValue)
    /\ UNCHANGED << recordedMax, sideVars >>

\* The same call, with the per-second history of recorded counts kept.
ScaleLogged(readyPods, stableValue, burstValue) ==
    /\ ScaleCall(readyPods, stableValue, burstValue)
    /\ recordedMax' =
           IF rec'.ScaleValid /\ maxTimeWindow # << >>
           THEN [ t \in Times |->
                    IF t > clock - config.ScaleDownDelay /\ t <= clock
                    THEN Max(recordedMax[t], call'.tentative)
                    ELSE 0 ]
           ELSE recordedMax
    /\ UNCHANGED sideVars

\* Time passes, up to the horizon.
Tick(horizon) ==
    /\ clock < horizon
    /\ clock' = clock + 1
    /\ call' = NoCall
    /\ UNCHANGED << scalerVars, rec, historyVars, managerVars, restVars >>

\* A scaler without scale-down delay, under every snapshot.
Next ==
    \/ \E readyPods \in 0..MaxReady, stableValue \in -1..MaxObs, burstValue \in -1..MaxObs :
           Scale(readyPods, stableValue, burstValue)
    \/ Tick(MaxTime)

Spec == Init /\ [][Next]_vars

\* A scaler with a scale-down delay, under a steady load: the stable and the
\* burst window average the same value.
\* The first call comes when the stable window since construction has run out.
InitDelay ==
    /\ NewSlidingWindowAutoscaler(DelayConfig, DelayConfig.StableWindow + 1)
    /\ NewManager(0, 0, {})
    /\ NoScaler

NextDelay ==
    \/ \E readyPods \in 0..MaxReady, value \in -1..MaxSteady :
           Scale(readyPods, value, value)
    \/ Tick(MaxDelayTime)

SpecDelay == InitDelay /\ [][NextDelay]_vars

\* The same scaler over a shorter run, every recorded count logged per second.
NextLog ==
    \/ \E readyPods \in 0..MaxReady, value \in -1..MaxSteady :
           ScaleLogged(readyPods, value, value)
    \/ Tick(MaxLogTime)

SpecLog == InitDelay /\ [][NextLog]_vars

\* ---------------------------------------------------------------- manager

\* The names scalers are registered under.
ScalerNames == { "cpu", "memory" }

\* What a registered scaler's Scale returns to the manager: the invalid
\* recommendation or a valid one of 0..MaxDesired pods, in or out of burst mode.
Recommendations ==
    { NoRecommendation } \cup
    [ DesiredPodCount : 0..MaxDesired, ScaleValid : {TRUE}, InBurstMode : BOOLEAN ]

\* The loop of Manager.Scale over the scalers of names, recs[n] being what
\* scaler n recommends: maxDesired and validScalers, from the values so far.
RECURSIVE FoldRecommendations(_, _, _, _)
FoldRecommendations(recs, names, maxDesired, validScalers) ==
    IF names = {}
    THEN [ maxDesired |-> maxDesired, validScalers |-> validScalers ]
    ELSE LET name == CHOOSE n \in names : TRUE
             recommendation == recs[name]
         IN  IF recommendation.ScaleValid
             THEN FoldRecommendations(recs, names \ {name},
                      IF recommendation.DesiredPodCount > maxDesired
                      THEN recommendation.DesiredPodCount ELSE maxDesired,
                      validScalers + 1)
             ELSE FoldRecommendations(recs, names \ {name}, maxDesired, validScalers)

\* The bounds applied with the lower one left out.
ApplyReplicaBounds_NoMin(minR, maxR, maxDesired) ==
    IF maxR > 0 /\ maxDesired > maxR THEN maxR ELSE maxDesired

\* Apply min/max bounds of the manager.
ApplyReplicaBounds(minR, maxR, maxDesired) ==
    LET raised == IF maxDesired < minR THEN minR ELSE maxDesired
    IN  IF maxR > 0 /\ raised > maxR THEN maxR ELSE raised

\* Manager.Scale falling back to minReplicas when no recommendation is valid.
ManagerScaleResult_NoValidMin(minR, maxR, names, recs, readyPods) ==
    IF names = {}
    THEN minR
    ELSE LET fold == FoldRecommendations(recs, names, 0, 0)
         IN  IF fold.validScalers = 0
             THEN minR
             ELSE ApplyReplicaBounds(minR, maxR, fold.maxDesired)

\* Manager.Scale(readyPods, now) when the registered scalers recommend recs.
ManagerScaleResult(minR, maxR, names, recs, readyPods) ==
    IF names = {}
    THEN minR
    ELSE LET fold == FoldRecommendations(recs, names, 0, 0)
         IN  IF fold.validScalers = 0
             THEN readyPods
             ELSE ApplyReplicaBounds(minR, maxR, fold.maxDesired)

notManagerVars == << clock, scalerVars, rec, call, historyVars, restVars >>

\* Manager.Register(s), s a scaler named name.
Register(name) ==
    /\ scalers' = scalers \cup {name}
    /\ mcall' = NoManagerCall
    /\ UNCHANGED << minReplicas, maxReplicas, notManagerVars >>

\* Manager.Unregister(name).
Unregister(name) ==
    /\ scalers' = scalers \ {name}
    /\ mcall' = NoManagerCall
    /\ UNCHANGED << minReplicas, maxReplicas, notManagerVars >>

\* Manager.SetMinScale(minValue).
SetMinScale(minValue) ==
    LET minR == IF minValue < 0 THEN 0 ELSE minValue
    IN  /\ minReplicas' = minR
        /\ maxReplicas' = IF maxReplicas > 0 /\ maxReplicas < minR
                          THEN minR ELSE maxReplicas
        /\ mcall' = NoManagerCall
        /\ UNCHANGED << scalers, notManagerVars >>

\* SetMaxScale leaving minReplicas above the new maximum.
SetMaxScale_KeepMin(maxValue) ==
    /\ maxReplicas' = maxValue
    /\ mcall' = NoManagerCall
    /\ UNCHANGED << minReplicas, scalers, notManagerVars >>

\* Manager.SetMaxScale(maxValue).
SetMaxScale(maxValue) ==
    /\ maxReplicas' = maxValue
    /\ minReplicas' = IF maxValue > 0 /\ minReplicas > maxValue
                      THEN maxValue ELSE minReplicas
    /\ mcall' = NoManagerCall
    /\ UNCHANGED << scalers, notManagerVars >>

\* Manager.Scale(readyPods, now), the registered scalers recommending recs.
ManagerScale(readyPods, recs) ==
    /\ mcall' = [ made |-> TRUE, readyPods |-> readyPods, recs |-> recs,
                  result |-> ManagerScaleResult(minReplicas, maxReplicas,
                                                scalers, recs, readyPods) ]
    /\ UNCHANGED << minReplicas, maxReplicas, scalers, notManagerVars >>

\* A manager under every sequence of calls.
InitManager ==
    /\ NewSlidingWindowAutoscaler(PlainConfig, 0)
    /\ \E minValue \in -1..MaxReplicas, maxValue \in -1..MaxReplicas,
          initialScalers \in SUBSET ScalerNames :
           NewManager(minValue, maxValue, initialScalers)
    /\ NoScaler

NextManager ==
    \/ \E name \in ScalerNames : Register(name)
    \/ \E name \in ScalerNames : Unregister(name)
    \/ \E minValue \in -1..MaxReplicas : SetMinScale(minValue)
    \/ \E maxValue \in -1..MaxReplicas : SetMaxScale(maxValue)
    \/ \E readyPods \in 0..MaxReady, recs \in [scalers -> Recommendations] :
           ManagerScale(readyPods, recs)

SpecManager == InitManager /\ [][NextManager]_vars

\* ----------------------------------------------------- a window by itself

\* The window recorded into: three buckets of two seconds.
WindowGeometry == [ window |-> 6, granularity |-> 2 ]

\* The times a window is queried at: up to a window and more after the
\* latest time recorded.
QueryTimes == 0..(MaxWindowTime + WindowGeometry.window + WindowGeometry.granularity)

notWindowVars ==
    << clock, scalerVars, rec, call, historyVars, managerVars, burstAggregator,
       updates, sideVars >>

\* TimeWindow.Record(t, value) on the window by itself, at any time t: in
\* order, out of order, older than the window, after a gap or after a jump.
WindowRecord(t, value) ==
    /\ stableAggregator.windowTotal + value <= MaxTotal
    /\ stableAggregator' = MetricsRecord(stableAggregator, t, value)
    /\ scall' = [ op |-> "Record", t |-> t, value |-> value,
                  before |-> stableAggregator ]
    /\ UNCHANGED notWindowVars

InitWindow ==
    /\ NewSlidingWindowAutoscaler(PlainConfig, 0)
    /\ NewManager(0, 0, {})
    /\ stableAggregator = MetricsNewTimeWindow("linear", WindowGeometry.window,
                                               WindowGeometry.granularity)
    /\ burstAggregator = << >>
    /\ scall = NoScalerCall
    /\ updates = 0
    /\ NoSide

NextWindow ==
    \E t \in 0..MaxWindowTime, value \in 1..MaxValue : WindowRecord(t, value)

SpecWindow == InitWindow /\ [][NextWindow]_vars

\* ------------------------------------------ a window fed in any order
\* The same window, with the history of the values it was given: scall.log
\* holds every <<time, value>> recorded so far, in timestamp order (values of
\* one time in the order they came), and scall.sinceJump those recorded from
\* the latest jump of a window or more on, in the order they came.

\* Record(t, value) finds the bucket of t a window or more after the last write.
JumpsAWindow(w, t) ==
    /\ w.lastWrite # ZeroTime
    /\ Truncate(t, w.granularity) - w.lastWrite >= w.window

\* records with <<t, value>> put in after the last record not later than t.
RECURSIVE InsertByTime(_, _, _)
InsertByTime(records, t, value) ==
    IF records = << >> \/ records[Len(records)][1] <= t
    THEN Append(records, << t, value >>)
    ELSE Append(InsertByTime(SubSeq(records, 1, Len(records) - 1), t, value),
                records[Len(records)])

\* The window after Record(t, value) for each <<t, value>> of records in turn.
RECURSIVE Replay(_, _)
Replay(w, records) ==
    IF records = << >>
    THEN w
    ELSE Replay(MetricsRecord(w, records[1][1], records[1][2]), Tail(records))

\* TimeWindow.Record(t, value) at any time t, the value kept in the log.
LoggedRecord(t, value) ==
    /\ Len(scall.log) < MaxRecords
    /\ stableAggregator' = MetricsRecord(stableAggregator, t, value)
    /\ scall' = [ op |-> "Record", t |-> t, value |-> value,
                  before |-> stableAggregator,
                  log |-> InsertByTime(scall.log, t, value),
                  sinceJump |-> IF JumpsAWindow(stableAggregator, t)
                                THEN << << t, value >> >>
                                ELSE IF scall.sinceJump # << >>
                                THEN Append(scall.sinceJump, << t, value >>)
                                ELSE << >> ]
    /\ UNCHANGED notWindowVars

InitOrder ==
    /\ NewSlidingWindowAutoscaler(PlainConfig, 0)
    /\ NewManager(0, 0, {})
    /\ stableAggregator = MetricsNewTimeWindow("linear", WindowGeometry.window,
                                               WindowGeometry.granularity)
    /\ burstAggregator = << >>
    /\ scall = [ op |-> "none", log |-> << >>, sinceJump |-> << >> ]
    /\ updates = 0
    /\ NoSide

NextOrder ==
    \E t \in 0..MaxWindowTime, value \in 1..MaxValue : LoggedRecord(t, value)

SpecOrder == InitOrder /\ [][NextOrder]_vars

\* ------------------------------------------------- a window being resized
\* The same window, recorded into and resized in any order: scall.resizes
\* counts the ResizeWindow calls made, and scall.again tells a call that asks
\* for the window the call before it asked for.

\* The windows asked for: fewer buckets, as many buckets for a window that is
\* not a multiple of the granularity, the first window again, more buckets.
ResizeWindows == { 4, 5, WindowGeometry.window, 8 }

\* TimeWindow.Record(t, value) on the window, at any time t.
ResizableRecord(t, value) ==
    /\ stableAggregator.windowTotal + value <= MaxTotal
    /\ stableAggregator' = MetricsRecord(stableAggregator, t, value)
    /\ scall' = [ op |-> "Record", newWindow |-> 0, again |-> FALSE,
                  before |-> stableAggregator, resizes |-> scall.resizes,
                  within |-> FALSE ]
    /\ UNCHANGED notWindowVars

\* TimeWindow.ResizeWindow(newWindow), time.Now() reading wall.
WindowResize(newWindow, wall) ==
    /\ scall.resizes < MaxResizes
    /\ stableAggregator' = ResizeWindow(stableAggregator, newWindow, wall)
    /\ scall' = [ op |-> "Resize", newWindow |-> newWindow,
                  again |-> scall.op = "Resize" /\ scall.newWindow = newWindow,
                  before |-> stableAggregator, resizes |-> scall.resizes + 1,
                  \* history: time.Now() was within the window of the last write
                  within |-> /\ stableAggregator.lastWrite # ZeroTime
                             /\ Truncate(wall, stableAggregator.granularity)
                                    - stableAggregator.lastWrite
                                    <= stableAggregator.window ]
    /\ UNCHANGED notWindowVars

InitResize ==
    /\ NewSlidingWindowAutoscaler(PlainConfig, 0)
    /\ NewManager(0, 0, {})
    /\ stableAggregator = MetricsNewTimeWindow("linear", WindowGeometry.window,
                                               WindowGeometry.granularity)
    /\ burstAggregator = << >>
    /\ scall = [ op |-> "none", newWindow |-> 0, again |-> FALSE,
                 before |-> << >>, resizes |-> 0, within |-> FALSE ]
    /\ updates = 0
    /\ NoSide

NextResize ==
    \/ \E t \in 0..MaxWindowTime, value \in 1..MaxValue : ResizableRecord(t, value)
    \/ \E newWindow \in ResizeWindows, wall \in QueryTimes :
           WindowResize(newWindow, wall)

SpecResize == InitResize /\ [][NextResize]_vars

\* ------------------------------------------------ a delay window by itself
\* A DelayWindow of 2-second slots, recorded into at any time and in any
\* order, asked for its maximum and resized.  scall holds the call just made,
\* the window before it and the number of Resize calls made so far.

\* The window built, and the windows Resize is asked for.
DelayGeometry == [ windowSize |-> 6, granularity |-> scaleDownDelayGranularity ]

DelaySizes == { 2, 4, 6, 8 }

notDelayWindowVars ==
    << clock, config, burstTime, maxBurstPods, rec, call, historyVars, managerVars,
       stableAggregator, burstAggregator, updates, sideVars >>

\* DelayWindow.Record(t, value).
DelayRecord(t, value) ==
    /\ maxTimeWindow' = << Record(maxTimeWindow[1], t, value) >>
    /\ scall' = [ op |-> "Record", now |-> t, result |-> value,
                  before |-> << >>, resizes |-> scall.resizes ]
    /\ UNCHANGED notDelayWindowVars

\* DelayWindow.CurrentMax(), called when the host's clock reads now.
DelayCurrentMax(now) ==
    /\ scall' = [ op |-> "CurrentMax", now |-> now,
                  result |-> CurrentMax(maxTimeWindow[1]),
                  before |-> << >>, resizes |-> scall.resizes ]
    /\ UNCHANGED << maxTimeWindow, notDelayWindowVars >>

\* DelayWindow.Resize(newWindowSize).
DelayResize(newWindowSize) ==
    /\ scall.resizes < MaxResizes
    /\ maxTimeWindow' = << Resize(maxTimeWindow[1], newWindowSize) >>
    /\ scall' = [ op |-> "Resize", now |-> 0, result |-> newWindowSize,
                  before |-> maxTimeWindow, resizes |-> scall.resizes + 1 ]
    /\ UNCHANGED notDelayWindowVars

InitDelayWindow ==
    /\ clock = 0
    /\ config = DelayConfig
    /\ burstTime = 0
    /\ maxBurstPods = 0
    /\ maxTimeWindow = << NewDelayWindow(DelayGeometry.windowSize,
                                         DelayGeometry.granularity) >>
    /\ rec = NoRecommendation
    /\ call = NoCall
    /\ lastOver = ZeroTime
    /\ recordedMax = [ t \in Times |-> 0 ]
    /\ recordedLast = [ t \in Times |-> 0 ]
    /\ NewManager(0, 0, {})
    /\ stableAggregator = << >>
    /\ burstAggregator = << >>
    /\ scall = [ op |-> "none", now |-> 0, result |-> 0, before |-> << >>,
                 resizes |-> 0 ]
    /\ updates = 0
    /\ NoSide

\* The host asks for the maximum no earlier than the latest time it recorded.
NextDelayWindow ==
    \/ \E t \in 0..MaxSlotTime, value \in 1..MaxDesired : DelayRecord(t, value)
    \/ \E now \in 0..(MaxSlotTime + DelayGeometry.windowSize) :
           /\ now >= maxTimeWindow[1].lastRecordedTime
           /\ DelayCurrentMax(now)
    \/ \E newWindowSize \in DelaySizes : DelayResize(newWindowSize)

SpecDelayWindow == InitDelayWindow /\ [][NextDelayWindow]_vars

\* ----------------------------------------------------------- manager.Scaler
\* A Scaler binds the algorithm to a stable and a burst aggregator of one
\* second granularity.  Its calls are made one at a time here.

\* libkpaconfig.Validate: the rules of a valid configuration.
Validate(cfg) ==
    /\ cfg.ScaleToZeroGracePeriod > 0
    /\ cfg.ScaleDownDelay >= 0
    /\ (cfg.TargetValue > 0) # (cfg.TotalTargetValue > 0)
    /\ cfg.MaxScaleUpRate[1] > cfg.MaxScaleUpRate[2]
    /\ cfg.MaxScaleDownRate[1] > cfg.MaxScaleDownRate[2]
    /\ cfg.StableWindow >= 5 /\ cfg.StableWindow <= 600
    /\ cfg.BurstWindowPercentage >= 1 /\ cfg.BurstWindowPercentage <= 100
    /\ cfg.MinScale >= 0
    /\ cfg.MaxScale >= 0
    /\ ~(cfg.MinScale > cfg.MaxScale /\ cfg.MaxScale > 0)
    /\ cfg.ActivationScale >= 1

\* The scaler's first configuration: a delay of one granule.
ScalerConfig == [ PlainConfig EXCEPT !.TargetValue = 1,
                                     !.ScaleDownDelay = scaleDownDelayGranularity ]

\* A wider stable window, a burst window of half of it, and no delay.
WideConfig == [ ScalerConfig EXCEPT !.StableWindow = 6,
                                    !.BurstWindowPercentage = 50,
                                    !.ScaleDownDelay = 0 ]

\* A configuration that fails validation on its scale-up rate, every other
\* field differing from the two above.
InvalidConfig == [ WideConfig EXCEPT !.MaxScaleUpRate = <<1, 1>>,
                                     !.StableWindow = 7,
                                     !.ScaleDownDelay = 2 * scaleDownDelayGranularity,
                                     !.MinScale = 1 ]

UpdateConfigs == { ScalerConfig, WideConfig, InvalidConfig }

\* The algoType values a caller passes.
AlgoTypes == { "linear", "weighted", "exponential" }

\* burstWindow: max(1 s, StableWindow * BurstWindowPercentage / 100), whole
\* seconds for the configurations above.
BurstWindow(cfg) == Max(1, (cfg.StableWindow * cfg.BurstWindowPercentage) \div 100)

\* The aggregators of one kind that NewScaler and ChangeAggregationAlgorithm
\* allocate.
NewAggregators(algoType, cfg) ==
    [ stable |-> MetricsNewTimeWindow(algoType, cfg.StableWindow, 1),
      burst  |-> MetricsNewTimeWindow(algoType, BurstWindow(cfg), 1) ]

\* The snapshot values with only the stable aggregator tested for emptiness.
SnapshotValues_StableOnly(stable, burst, now) ==
    IF IsEmpty(stable, now)
    THEN << << -1, 1 >>, << -1, 1 >> >>
    ELSE << WindowAverage(stable, now), WindowAverage(burst, now) >>

\* The two values of the snapshot Scaler.Scale builds: the window averages,
\* or -1 for both when either aggregator is empty.
SnapshotValues(stable, burst, now) ==
    IF IsEmpty(stable, now) \/ IsEmpty(burst, now)
    THEN << << -1, 1 >>, << -1, 1 >> >>
    ELSE << WindowAverage(stable, now), WindowAverage(burst, now) >>

\* Update with the new configuration stored before it is validated.
AlgorithmUpdate_ConfigFirst(cur, w, cfg) ==
    IF ~Validate(cfg)
    THEN [ ok |-> FALSE, config |-> cfg, maxTimeWindow |-> w ]
    ELSE [ ok |-> TRUE, config |-> cfg,
           maxTimeWindow |-> IF cfg.ScaleDownDelay > 0 THEN NewTimeWindow(cfg) ELSE w ]

\* SlidingWindowAutoscaler.Update(config): on a valid configuration the
\* config is replaced, and a fresh delay window allocated if the new delay is
\* positive; the window is otherwise left as it is.
AlgorithmUpdate(cur, w, cfg) ==
    IF ~Validate(cfg)
    THEN [ ok |-> FALSE, config |-> cur, maxTimeWindow |-> w ]
    ELSE [ ok |-> TRUE, config |-> cfg,
           maxTimeWindow |-> IF cfg.ScaleDownDelay > 0 THEN NewTimeWindow(cfg) ELSE w ]

\* What the history keeps of the scaler as it was before a rejected call:
\* the fields of the algorithm and the two aggregators.
ScalerFields ==
    [ config |-> config, burstTime |-> burstTime, maxBurstPods |-> maxBurstPods,
      maxTimeWindow |-> maxTimeWindow,
      stableAggregator |-> stableAggregator, burstAggregator |-> burstAggregator ]

\* NewScaler(name, cfg, algoType) at the host's time FirstScalerTime.  The
\* algorithm's constructor sets burstTime to time.Now(), read as wall, with
\* maxBurstPods 0; initialReplicas is the replica count the host has at that
\* time, which the constructor is not given.
NewScaler(cfg, algoType, wall, initialReplicas) ==
    /\ clock = FirstScalerTime
    /\ config = cfg
    /\ burstTime = wall
    /\ maxBurstPods = 0
    /\ maxTimeWindow = NewTimeWindow(cfg)
    /\ stableAggregator = NewAggregators(algoType, cfg).stable
    /\ burstAggregator = NewAggregators(algoType, cfg).burst
    /\ scall = [ op |-> "NewScaler", now |-> FirstScalerTime,
                 initialReplicas |-> initialReplicas ]
    /\ updates = 0
    /\ rec = NoRecommendation
    /\ call = NoCall
    /\ lastOver = ZeroTime
    /\ recordedMax = [ t \in Times |-> 0 ]
    /\ recordedLast = [ t \in Times |-> 0 ]

InitScaler ==
    /\ \E algoType \in { "linear", "weighted" },
          wall \in (FirstScalerTime - 1)..FirstScalerTime,
          initialReplicas \in 0..MaxReplicas :
           NewScaler(ScalerConfig, algoType, wall, initialReplicas)
    /\ NewManager(0, 0, {})
    /\ NoSide

\* Scaler.Record(value, t): the value goes to the stable aggregator, then to
\* the burst aggregator.
ScalerRecord(value, t) ==
    /\ t >= FirstScalerTime
    /\ stableAggregator.windowTotal + value <= MaxTotal
    /\ stableAggregator' = MetricsRecord(stableAggregator, t, value)
    /\ burstAggregator' = MetricsRecord(burstAggregator, t, value)
    /\ scall' = [ op |-> "Record", now |-> clock, t |-> t, value |-> value ]
    /\ call' = NoCall
    /\ UNCHANGED << clock, scalerVars, rec, historyVars, managerVars, updates,
                    sideVars >>

\* Scaler.Scale(readyPods, now) with now = clock.
ScalerScale(readyPods) ==
    \E values \in { SnapshotValues(stableAggregator, burstAggregator, clock) } :
    \E out \in { ScaleOutcome(config, burstTime, maxBurstPods, maxTimeWindow,
                               NewMetricSnapshot(values[1], values[2], readyPods),
                               clock) } :
        /\ AlgorithmScale(out)
        /\ call' = NoCall
        /\ scall' = [ op |-> "Scale", now |-> clock, readyPods |-> readyPods,
                      stableValue |-> values[1], burstValue |-> values[2] ]
        /\ UNCHANGED << clock, config, historyVars, managerVars,
                        stableAggregator, burstAggregator, updates, sideVars >>

\* Scaler.Update(config): the algorithm's Update, and on success the resize
\* of the stable and then the burst aggregator, each reading time.Now().
ScalerUpdate(cfg, wall1, wall2) ==
    \E out \in { AlgorithmUpdate(config, maxTimeWindow, cfg) } :
        /\ updates < MaxUpdates
        /\ config' = out.config
        /\ maxTimeWindow' = out.maxTimeWindow
        /\ stableAggregator' =
               IF out.ok THEN ResizeWindow(stableAggregator, cfg.StableWindow, wall1)
                         ELSE stableAggregator
        /\ burstAggregator' =
               IF out.ok THEN ResizeWindow(burstAggregator, BurstWindow(cfg), wall2)
                         ELSE burstAggregator
        /\ scall' = IF out.ok
                    THEN [ op |-> "Update", now |-> clock, ok |-> TRUE,
                           requested |-> cfg ]
                    ELSE [ op |-> "Update", now |-> clock, ok |-> FALSE,
                           requested |-> cfg, before |-> ScalerFields ]
        /\ call' = NoCall
        /\ updates' = updates + 1
        /\ UNCHANGED sideVars
        /\ UNCHANGED << clock, burstTime, maxBurstPods, rec, historyVars, managerVars >>

\* What time.Now() returns to a call made at the host's time now: that time,
\* or a time beyond every window.  The two aggregators are written together,
\* so these two readings give every outcome of the resize's window test.
WallTimes(now) == { now, now + MaxWallAhead }

\* The reallocation with the burst aggregator left as it was.
SwappedAggregators_BurstKept(algoType, cfg, stable, burst) ==
    IF algoType \in { "linear", "weighted" }
    THEN [ ok |-> TRUE, stable |-> NewAggregators(algoType, cfg).stable, burst |-> burst ]
    ELSE [ ok |-> FALSE, stable |-> stable, burst |-> burst ]

\* The aggregators after ChangeAggregationAlgorithm(algoType): fresh ones of
\* a known kind, the old ones and an error otherwise.
SwappedAggregators(algoType, cfg, stable, burst) ==
    IF algoType \in { "linear", "weighted" }
    THEN [ ok |-> TRUE, stable |-> NewAggregators(algoType, cfg).stable,
           burst |-> NewAggregators(algoType, cfg).burst ]
    ELSE [ ok |-> FALSE, stable |-> stable, burst |-> burst ]

\* Scaler.ChangeAggregationAlgorithm(algoType).
ChangeAggregationAlgorithm(algoType) ==
    \E out \in { SwappedAggregators(algoType, config, stableAggregator, burstAggregator) } :
        /\ stableAggregator' = out.stable
        /\ burstAggregator' = out.burst
        /\ scall' = [ op |-> "ChangeAggregationAlgorithm", now |-> clock,
                      ok |-> out.ok, algoType |-> algoType ]
        /\ call' = NoCall
        /\ UNCHANGED << clock, scalerVars, rec, historyVars, managerVars, updates,
                    sideVars >>

\* The calls on one scaler, one at a time, as time passes.  A value is
\* recorded at the current second or the one before.
NextScaler ==
    \/ \E value \in 1..MaxValue, lag \in 0..1 : ScalerRecord(value, clock - lag)
    \/ \E readyPods \in 0..MaxReady : ScalerScale(readyPods)
    \/ \E algoType \in AlgoTypes : ChangeAggregationAlgorithm(algoType)
    \/ Tick(MaxScalerTime)

SpecScaler == InitScaler /\ [][NextScaler]_vars

\* A scaler of either kind, constructed for one replica.
InitUpdate ==
    /\ \E algoType \in { "linear", "weighted" } :
           NewScaler(ScalerConfig, algoType, FirstScalerTime, 1)
    /\ NewManager(0, 0, {})
    /\ NoSide

\* The calls on one scaler that is reconfigured as it runs.
NextUpdate ==
    \/ \E value \in 1..MaxValue, lag \in 0..1 : ScalerRecord(value, clock - lag)
    \/ \E readyPods \in 0..MaxReady : ScalerScale(readyPods)
    \/ \E cfg \in UpdateConfigs, wall1 \in WallTimes(clock) :
           \E wall2 \in { w \in WallTimes(clock) : w >= wall1 } :
               ScalerUpdate(cfg, wall1, wall2)
    \/ Tick(MaxUpdateTime)

SpecUpdate == InitUpdate /\ [][NextUpdate]_vars

\* The delay of DelayConfig taken away, and halved.
NoDelayConfig == [ DelayConfig EXCEPT !.ScaleDownDelay = 0 ]

ShortDelayConfig == [ DelayConfig EXCEPT !.ScaleDownDelay = scaleDownDelayGranularity ]

DelayConfigs == { DelayConfig, NoDelayConfig, ShortDelayConfig }

\* Update storing the configuration it is given, valid or not.
Update_Unchecked(cfg) ==
    /\ updates < MaxUpdates
    /\ config' = cfg
    /\ maxTimeWindow' = IF cfg.ScaleDownDelay > 0 THEN NewTimeWindow(cfg)
                        ELSE maxTimeWindow
    /\ scall' = [ op |-> "Update", now |-> clock, ok |-> TRUE, requested |-> cfg ]
    /\ call' = NoCall
    /\ updates' = updates + 1
    /\ UNCHANGED sideVars
    /\ UNCHANGED << clock, burstTime, maxBurstPods, rec, historyVars,
                    managerVars, stableAggregator, burstAggregator >>

\* SlidingWindowAutoscaler.Update(config) on the algorithm by itself.
Update(cfg) ==
    \E out \in { AlgorithmUpdate(config, maxTimeWindow, cfg) } :
        /\ updates < MaxUpdates
        /\ config' = out.config
        /\ maxTimeWindow' = out.maxTimeWindow
        /\ scall' = [ op |-> "Update", now |-> clock, ok |-> out.ok,
                      requested |-> cfg ]
        /\ call' = NoCall
        /\ updates' = updates + 1
        /\ UNCHANGED sideVars
        /\ UNCHANGED << clock, burstTime, maxBurstPods, rec, historyVars,
                        managerVars, stableAggregator, burstAggregator >>

\* The scaler with a scale-down delay, reconfigured as it runs under a
\* steady load.
NextReconfigure ==
    \/ \E readyPods \in 0..MaxReady, value \in -1..MaxSteady :
           Scale(readyPods, value, value)
    \/ \E cfg \in DelayConfigs : Update(cfg)
    \/ Tick(MaxDelayTime)

SpecReconfigure == InitDelay /\ [][NextReconfigure]_vars

\* The same call, the history keeping the window there was before an update
\* that asks for the delay there is.
UpdateHeld(cfg) ==
    \E out \in { AlgorithmUpdate(config, maxTimeWindow, cfg) } :
        /\ updates < MaxUpdates
        /\ config' = out.config
        /\ maxTimeWindow' = out.maxTimeWindow
        /\ scall' = [ op |-> "Update", now |-> clock, ok |-> out.ok,
                      requested |-> cfg,
                      held |-> IF cfg.ScaleDownDelay = config.ScaleDownDelay
                               THEN maxTimeWindow ELSE << >> ]
        /\ call' = NoCall
        /\ updates' = updates + 1
        /\ UNCHANGED sideVars
        /\ UNCHANGED << clock, burstTime, maxBurstPods, rec, historyVars,
                        managerVars, stableAggregator, burstAggregator >>

\* The scaler with a scale-down delay, updated as it runs under a steady
\* load, over the shorter run.
NextSameDelay ==
    \/ \E readyPods \in 0..MaxReady, value \in -1..MaxSteady :
           Scale(readyPods, value, value)
    \/ \E cfg \in DelayConfigs : UpdateHeld(cfg)
    \/ Tick(MaxLogTime)

SpecSameDelay == InitDelay /\ [][NextSameDelay]_vars

\* ---------------------------------------------------- the two target modes
\* A scaler constructed with, and updated to, configurations that set the
\* per-pod target, the total target, both or neither.  The constructor
\* returns an error and no scaler for a configuration that fails validation.

BothTargetsConfig == [ PlainConfig EXCEPT !.TotalTargetValue = 1 ]

NoTargetConfig == [ PlainConfig EXCEPT !.TargetValue = 0 ]

TargetConfigs == { PlainConfig, TotalConfig, BothTargetsConfig, NoTargetConfig }

InitTargets ==
    /\ \E cfg \in { c \in TargetConfigs : Validate(c) } :
           NewSlidingWindowAutoscaler(cfg, 0)
    /\ NewManager(0, 0, {})
    /\ NoScaler

NextTargets ==
    \/ \E readyPods \in 0..MaxReady, value \in -1..MaxValue :
           Scale(readyPods, value, value)
    \/ \E cfg \in TargetConfigs : Update(cfg)
    \/ Tick(MaxTime)

SpecTargets == InitTargets /\ [][NextTargets]_vars

\* ------------------------------------------------------ the total target
\* A total target of 2: a demand that is not a multiple of the target is
\* rounded up.
HalfTotalConfig == [ TotalConfig EXCEPT !.TotalTargetValue = 2 ]

TotalTargetConfigs == { TotalConfig, HalfTotalConfig }

\* A scaler in total-target mode, under every snapshot, called at the times
\* 0..MaxLoadTime.
InitTotal ==
    /\ \E cfg \in TotalTargetConfigs : NewSlidingWindowAutoscaler(cfg, 0)
    /\ NewManager(0, 0, {})
    /\ NoScaler

NextTotal ==
    \/ \E readyPods \in 0..MaxReady, stableValue \in -1..MaxObs, burstValue \in -1..MaxObs :
           Scale(readyPods, stableValue, burstValue)
    \/ Tick(MaxLoadTime)

SpecTotal == InitTotal /\ [][NextTotal]_vars

\* ------------------------------------------------- a load that falls to zero
\* The scaler with a scale-down delay and MinScale = 0, constructed at time 0
\* and called from time 1 on.  It is under any load at first; from some
\* call on every snapshot is a valid 0, each call is made at a later now than
\* the call before it, and readyPods is the count the call before it
\* returned.  scall holds the phase, and of the moment the load fell the
\* count recommended and whether the scaler was in burst mode.

ZeroConfig == [ DelayConfig EXCEPT !.MinScale = 0 ]

\* Scale(snapshot, now) under load.
LoadScale(readyPods, value) ==
    /\ scall.op = "load"
    /\ Scale(readyPods, value, value)

\* Time passes under load.
LoadTick ==
    /\ scall.op = "load"
    /\ Tick(MaxLoadTime)

\* The load falls to zero for good.
LoadEnds ==
    /\ scall.op = "load"
    /\ scall' = [ op |-> "zero", peak |-> rec.DesiredPodCount,
                  inBurst |-> burstTime # ZeroTime ]
    /\ UNCHANGED << clock, scalerVars, rec, call, historyVars, managerVars,
                    stableAggregator, burstAggregator, updates, sideVars >>

\* Scale(snapshot, now) with a snapshot of zeros and the ready pods the call
\* before recommended, once per reading of the clock.
ZeroScale ==
    /\ scall.op = "zero"
    /\ ~call.made
    /\ Scale(rec.DesiredPodCount, 0, 0)

\* Time passes between two calls.
ZeroTick ==
    /\ scall.op = "zero"
    /\ call.made
    /\ Tick(MaxZeroTime)

InitZero ==
    /\ NewSlidingWindowAutoscaler(ZeroConfig, 1)
    /\ NewManager(0, 0, {})
    /\ stableAggregator = << >>
    /\ burstAggregator = << >>
    /\ scall = [ op |-> "load" ]
    /\ updates = 0
    /\ NoSide

NextZero ==
    \/ \E readyPods \in 0..MaxReady, value \in -1..MaxSteady :
           LoadScale(readyPods, value)
    \/ LoadTick
    \/ LoadEnds
    \/ ZeroScale
    \/ ZeroTick

\* The host goes on calling Scale and its clock goes on, whatever the load;
\* the load falls at some moment.
SpecZero ==
    /\ InitZero
    /\ [][NextZero]_vars
    /\ WF_vars(LoadEnds)
    /\ WF_vars(ZeroScale)
    /\ WF_vars(ZeroTick)

\* -------------------------------------------------- two runs, same inputs
\* The scaler is run twice with one configuration and one sequence of Scale
\* calls.  What the runs do not share is what time.Now() returns to the
\* constructor of each.

\* The fields and the last recommendation of the second run.
NewTwin(cfg, wall) ==
    [ burstTime |-> wall, maxBurstPods |-> 0, maxTimeWindow |-> NewTimeWindow(cfg),
      rec |-> NoRecommendation ]

\* NewSlidingWindowAutoscaler(cfg) in the two runs, the host at time 0.
InitTwin ==
    /\ \E cfg \in Configs, wall1 \in 0..MaxWall, wall2 \in 0..MaxWall :
           /\ clock = 0
           /\ config = cfg
           /\ burstTime = wall1
           /\ maxBurstPods = 0
           /\ maxTimeWindow = NewTimeWindow(cfg)
           /\ twin = NewTwin(cfg, wall2)
    /\ rec = NoRecommendation
    /\ call = NoCall
    /\ lastOver = ZeroTime
    /\ recordedMax = [ t \in Times |-> 0 ]
    /\ recordedLast = [ t \in Times |-> 0 ]
    /\ NewManager(0, 0, {})
    /\ stableAggregator = << >>
    /\ burstAggregator = << >>
    /\ scall = NoScalerCall
    /\ updates = 0
    /\ NoRace
    /\ NoLocks

\* One Scale call, with one snapshot and one now, in both runs.
TwinScale(readyPods, stableValue, burstValue) ==
    /\ ScaleCall(readyPods, stableValue, burstValue)
    /\ \E out \in { ScaleOutcome(config, twin.burstTime, twin.maxBurstPods,
                                  twin.maxTimeWindow,
                                  NewMetricSnapshot(<< stableValue, 1 >>,
                                                    << burstValue, 1 >>, readyPods),
                                  clock) } :
           twin' = [ burstTime |-> out.burstTime, maxBurstPods |-> out.maxBurstPods,
                     maxTimeWindow |-> out.maxTimeWindow, rec |-> out.rec ]
    /\ UNCHANGED << recordedMax, raceVars, lockVars >>

NextTwin ==
    \/ \E readyPods \in 0..MaxReady, value \in -1..MaxSteady :
           TwinScale(readyPods, value, value)
    \/ Tick(MaxTwinTime)

SpecTwin == InitTwin /\ [][NextTwin]_vars

\* ------------------------------------- Scaler.Record against Scaler.Scale
\* One goroutine calls Scaler.Scale and another Scaler.Record on the same
\* Scaler.  The Scaler has no lock of its own: each call on an aggregator
\* is atomic under that aggregator's lock, and another goroutine may run
\* between any two of them.

IdleScale == [ pc |-> "idle" ]

IdleRecord == [ pc |-> "idle" ]

\* The snapshot values Scale would build from the aggregators at once.
Whole(aggregators, now) ==
    SnapshotValues(aggregators.stable, aggregators.burst, now)

InitRace ==
    /\ NewScaler(ScalerConfig, "linear", FirstScalerTime, 1)
    /\ NewManager(0, 0, {})
    /\ twin = NoTwin
    /\ scaleThread = IdleScale
    /\ recordThread = IdleRecord
    /\ linearized = NewAggregators("linear", ScalerConfig)
    /\ NoLocks

notRaceVars == << clock, scalerVars, rec, call, historyVars, managerVars, scall,
                 updates, twin, lockVars >>

\* Scale(readyPods, now) is called.  allowed: the snapshot values of the
\* orders in which this call may take effect, a Record under way placed
\* before or after it.
ScaleInvoke(readyPods) ==
    /\ scaleThread.pc = "idle"
    /\ scaleThread' =
           [ pc |-> "stableAverage", readyPods |-> readyPods, now |-> clock,
             allowed |-> { Whole(linearized, clock) } \cup
                         IF recordThread.pc = "idle" THEN {}
                         ELSE { Whole(recordThread.before, clock) } ]
    /\ UNCHANGED << notRaceVars, stableAggregator, burstAggregator, recordThread,
                    linearized >>

\* stableValue := s.stableAggregator.WindowAverage(now)
ScaleStableAverage ==
    /\ scaleThread.pc = "stableAverage"
    /\ scaleThread' =
           [ pc |-> "burstAverage", readyPods |-> scaleThread.readyPods,
             now |-> scaleThread.now, allowed |-> scaleThread.allowed,
             stableValue |-> WindowAverage(stableAggregator, scaleThread.now) ]
    /\ UNCHANGED << notRaceVars, stableAggregator, burstAggregator, recordThread,
                    linearized >>

\* burstValue := s.burstAggregator.WindowAverage(now)
ScaleBurstAverage ==
    /\ scaleThread.pc = "burstAverage"
    /\ scaleThread' =
           [ pc |-> "stableEmpty", readyPods |-> scaleThread.readyPods,
             now |-> scaleThread.now, allowed |-> scaleThread.allowed,
             stableValue |-> scaleThread.stableValue,
             burstValue |-> WindowAverage(burstAggregator, scaleThread.now) ]
    /\ UNCHANGED << notRaceVars, stableAggregator, burstAggregator, recordThread,
                    linearized >>

\* s.stableAggregator.IsEmpty(now), the left operand of ||: if it is true
\* the burst aggregator is not asked and both values become -1.
ScaleStableEmpty ==
    /\ scaleThread.pc = "stableEmpty"
    /\ scaleThread' =
           IF IsEmpty(stableAggregator, scaleThread.now)
           THEN [ scaleThread EXCEPT !.pc = "scale", !.stableValue = << -1, 1 >>,
                                     !.burstValue = << -1, 1 >> ]
           ELSE [ scaleThread EXCEPT !.pc = "burstEmpty" ]
    /\ UNCHANGED << notRaceVars, stableAggregator, burstAggregator, recordThread,
                    linearized >>

\* s.burstAggregator.IsEmpty(now), the right operand.
ScaleBurstEmpty ==
    /\ scaleThread.pc = "burstEmpty"
    /\ scaleThread' =
           IF IsEmpty(burstAggregator, scaleThread.now)
           THEN [ scaleThread EXCEPT !.pc = "scale", !.stableValue = << -1, 1 >>,
                                     !.burstValue = << -1, 1 >> ]
           ELSE [ scaleThread EXCEPT !.pc = "scale" ]
    /\ UNCHANGED << notRaceVars, stableAggregator, burstAggregator, recordThread,
                    linearized >>

\* return s.algorithm.Scale(snapshot, now).  The history keeps the
\* recommendations of the allowed orders next to the one returned.
ScaleReturn ==
    /\ scaleThread.pc = "scale"
    /\ \E out \in { ScaleOutcome(config, burstTime, maxBurstPods, maxTimeWindow,
                                  NewMetricSnapshot(scaleThread.stableValue,
                                                    scaleThread.burstValue,
                                                    scaleThread.readyPods),
                                  scaleThread.now) } :
           AlgorithmScale(out)
    /\ scall' = [ op |-> "Scale", now |-> scaleThread.now,
                  readyPods |-> scaleThread.readyPods,
                  stableValue |-> scaleThread.stableValue,
                  burstValue |-> scaleThread.burstValue,
                  allowed |->
                      { ScaleOutcome(config, burstTime, maxBurstPods, maxTimeWindow,
                                     NewMetricSnapshot(p[1], p[2], scaleThread.readyPods),
                                     scaleThread.now).rec : p \in scaleThread.allowed } ]
    /\ call' = NoCall
    /\ scaleThread' = IdleScale
    /\ UNCHANGED << clock, config, historyVars, managerVars, updates, twin,
                    lockVars, stableAggregator, burstAggregator, recordThread,
                    linearized >>

\* Record(value, t) is called, with t = clock.  From here on the call may
\* take effect: an order in which it precedes a Scale under way is allowed.
RecordInvoke(value) ==
    /\ recordThread.pc = "idle"
    /\ linearized.stable.windowTotal + value <= MaxTotal
    /\ \E after \in { [ stable |-> MetricsRecord(linearized.stable, clock, value),
                          burst  |-> MetricsRecord(linearized.burst, clock, value) ] } :
           /\ linearized' = after
           /\ scaleThread' =
                  IF scaleThread.pc = "idle"
                  THEN scaleThread
                  ELSE [ scaleThread EXCEPT
                           !.allowed = @ \cup { Whole(after, scaleThread.now) } ]
    /\ recordThread' = [ pc |-> "stableRecord", value |-> value, t |-> clock,
                         before |-> linearized ]
    /\ UNCHANGED << notRaceVars, stableAggregator, burstAggregator >>

\* s.stableAggregator.Record(t, value)
RecordStable ==
    /\ recordThread.pc = "stableRecord"
    /\ stableAggregator' = MetricsRecord(stableAggregator, recordThread.t,
                                          recordThread.value)
    /\ recordThread' = [ recordThread EXCEPT !.pc = "burstRecord" ]
    /\ UNCHANGED << notRaceVars, burstAggregator, scaleThread, linearized >>

\* s.burstAggregator.Record(t, value), and the call returns.
RecordBurst ==
    /\ recordThread.pc = "burstRecord"
    /\ burstAggregator' = MetricsRecord(burstAggregator, recordThread.t,
                                         recordThread.value)
    /\ recordThread' = IdleRecord
    /\ UNCHANGED << notRaceVars, stableAggregator, scaleThread, linearized >>

NextRace ==
    \/ \E readyPods \in 1..MaxReady : ScaleInvoke(readyPods)
    \/ ScaleStableAverage
    \/ ScaleBurstAverage
    \/ ScaleStableEmpty
    \/ ScaleBurstEmpty
    \/ ScaleReturn
    \/ \E value \in 1..MaxValue : RecordInvoke(value)
    \/ RecordStable
    \/ RecordBurst
    \/ Tick(MaxRaceTime)

SpecRace == InitRace /\ [][NextRace]_vars

\* ---------------------- Scaler.Record against ChangeAggregationAlgorithm
\* One goroutine calls Scaler.Record and another
\* Scaler.ChangeAggregationAlgorithm on the same Scaler, at one reading of
\* the clock.  Neither call takes a lock of the Scaler: Record reads the
\* field stableAggregator and then the field burstAggregator, and
\* ChangeAggregationAlgorithm assigns them one after the other.  pc is the
\* position of the goroutine in ChangeAggregationAlgorithm.

IdleChange == [ pc |-> "idle" ]

\* Record(value, t) is called, with t = clock.
SwapRecordInvoke(value) ==
    /\ recordThread.pc = "idle"
    /\ stableAggregator.windowTotal + value <= MaxTotal
    /\ burstAggregator.windowTotal + value <= MaxTotal
    /\ recordThread' = [ pc |-> "stableRecord", value |-> value, t |-> clock ]
    /\ UNCHANGED << notRaceVars, stableAggregator, burstAggregator, scaleThread,
                    linearized >>

\* s.stableAggregator, err = metrics.NewTimeWindow(cfg.StableWindow, granularity),
\* or NewWeightedTimeWindow.
ChangeStable(algoType) ==
    /\ pc.pc = "idle"
    /\ stableAggregator' = NewAggregators(algoType, config).stable
    /\ pc' = [ pc |-> "burstAggregator", algoType |-> algoType ]
    /\ UNCHANGED << clock, scalerVars, rec, call, historyVars, managerVars, scall,
                    updates, twin, mu, raceVars, burstAggregator >>

\* s.burstAggregator, err = metrics.NewTimeWindow(burstWindow, granularity),
\* or NewWeightedTimeWindow, and the call returns.
ChangeBurst ==
    /\ pc.pc = "burstAggregator"
    /\ burstAggregator' = NewAggregators(pc.algoType, config).burst
    /\ pc' = IdleChange
    /\ UNCHANGED << clock, scalerVars, rec, call, historyVars, managerVars, scall,
                    updates, twin, mu, raceVars, stableAggregator >>

InitSwap ==
    /\ NewScaler(ScalerConfig, "linear", FirstScalerTime, 1)
    /\ NewManager(0, 0, {})
    /\ twin = NoTwin
    /\ scaleThread = << >>
    /\ recordThread = IdleRecord
    /\ linearized = << >>
    /\ mu = << >>
    /\ pc = IdleChange

NextSwap ==
    \/ \E value \in 1..MaxValue : SwapRecordInvoke(value)
    \/ RecordStable
    \/ RecordBurst
    \/ \E algoType \in { "linear", "weighted" } : ChangeStable(algoType)
    \/ ChangeBurst

SpecSwap == InitSwap /\ [][NextSwap]_vars

\* ------------------------------------------------------------------ locks
\* The locking of concurrent calls: the manager's mu, the algorithm's mu and
\* the mu of each aggregator, all sync.RWMutex.  A call is the sequence of
\* its lock operations; what the locks protect is left to the
\* specifications above.  A scaler "cpu" exists throughout, registered or
\* not, and ChangeAggregationAlgorithm is taken to leave the aggregators'
\* locks in place, which keeps every contention there is.

Mutexes == { "manager", "stable", "burst", "algorithm" }

Goroutines == { "scaler", "recorder", "operator", "reconfigurer" }

\* The calls each goroutine makes.
CallsOf(g) ==
    IF g = "scaler" THEN { "Scale" }
    ELSE IF g = "recorder" THEN { "Record" }
    ELSE IF g = "operator"
         THEN { "Register", "Unregister", "SetMinScale", "SetMaxScale" }
         ELSE { "ChangeAggregationAlgorithm", "Update" }

\* A reader's critical section, and a writer's: Lock first makes the writer
\* known (announce), which holds new readers off, then waits for the lock.
Reading(m) == << << "RLock", m >>, << "RUnlock", m >> >>

Writing(m) == << << "announce", m >>, << "Lock", m >>, << "Unlock", m >> >>

\* The lock operations of a call, in program order.
Program(op) ==
    IF op = "Scale"
    THEN << << "RLock", "manager" >> >>
         \o Reading("stable") \o Reading("burst")      \* the two WindowAverage
         \o Reading("stable") \o Reading("burst")      \* the two IsEmpty
         \o Writing("algorithm")                       \* algorithm.Scale
         \o << << "RUnlock", "manager" >> >>
    ELSE IF op = "Record"
    THEN Reading("manager") \o Writing("stable") \o Writing("burst")
    ELSE IF op = "ChangeAggregationAlgorithm"
    THEN Reading("manager") \o Reading("algorithm")   \* lookup, GetConfig
    ELSE IF op = "Update"
    THEN Writing("algorithm")                          \* algorithm.Update
         \o Reading("stable") \o Writing("stable")     \* ResizeWindow
         \o Reading("burst") \o Writing("burst")       \* ResizeWindow
    ELSE Writing("manager")          \* Register, Unregister, Set*Scale

\* The steps that may follow step i of a call: the next one, or another
\* where the code returns early or skips; Len + 1 is the return.
Following(op, i, registered) ==
    LET last == Len(Program(op)) IN
    IF op = "Scale" /\ i = 1
    THEN IF registered THEN { 2 } ELSE { last }   \* no scalers: return
    ELSE IF op = "Scale" /\ i = 7
    THEN { 8, 10 }                    \* || does not ask the burst aggregator
    ELSE IF op \in { "Record", "ChangeAggregationAlgorithm" } /\ i = 2
    THEN IF registered THEN { 3 } ELSE { last + 1 }   \* scaler not found
    ELSE IF op = "Update" /\ i = 3
    THEN { 4, last + 1 }              \* the configuration is rejected
    ELSE IF op = "Update" /\ i = 5
    THEN { 6, 9 }                     \* the stable window is not resized
    ELSE IF op = "Update" /\ i = 10
    THEN { 11, last + 1 }             \* the burst window is not resized
    ELSE { i + 1 }

FreeLock == [ writer |-> "none", readers |-> {}, waiting |-> {} ]

Idle == [ op |-> "idle", at |-> 0 ]

\* RWMutex.RUnlock with the reader left in place.
RUnlock_Held(l, g) == l

\* RWMutex.RUnlock.
RUnlock(l, g) == [ l EXCEPT !.readers = @ \ { g } ]

\* Whether goroutine g can make the lock operation kind on lock l now.
CanStep(l, kind, g) ==
    IF kind = "RLock" THEN l.writer = "none" /\ l.waiting = {}
    ELSE IF kind = "Lock" THEN l.writer = "none" /\ l.readers = {}
    ELSE TRUE

\* The lock after the operation.
AfterStep(l, kind, g) ==
    IF kind = "RLock" THEN [ l EXCEPT !.readers = @ \cup { g } ]
    ELSE IF kind = "RUnlock" THEN RUnlock(l, g)
    ELSE IF kind = "announce" THEN [ l EXCEPT !.waiting = @ \cup { g } ]
    ELSE IF kind = "Lock" THEN [ l EXCEPT !.writer = g, !.waiting = @ \ { g } ]
    ELSE [ l EXCEPT !.writer = "none" ]

InitLocks ==
    /\ NewSlidingWindowAutoscaler(PlainConfig, 0)
    /\ \E initialScalers \in SUBSET { "cpu" } : NewManager(0, 0, initialScalers)
    /\ stableAggregator = << >>
    /\ burstAggregator = << >>
    /\ scall = NoScalerCall
    /\ updates = 0
    /\ twin = NoTwin
    /\ NoRace
    /\ mu = [ m \in Mutexes |-> FreeLock ]
    /\ pc = [ g \in Goroutines |-> Idle ]

notLockVars == << clock, scalerVars, rec, call, historyVars, minReplicas,
                 maxReplicas, mcall, aggregatorVars, updates, twin, raceVars >>

\* Goroutine g calls op.
Invoke(g, op) ==
    /\ pc[g] = Idle
    /\ pc' = [ pc EXCEPT ![g] = [ op |-> op, at |-> 1 ] ]
    /\ UNCHANGED << notLockVars, scalers, mu >>

\* Goroutine g makes the next lock operation of its call, once the lock
\* lets it, and goes on to a step that may follow, or returns.  Register and
\* Unregister change the map of scalers under the lock.
Step(g) ==
    /\ pc[g] # Idle
    /\ LET op   == pc[g].op
           step == Program(op)[pc[g].at]
           kind == step[1]
           m    == step[2]
       IN  /\ CanStep(mu[m], kind, g)
           /\ mu' = [ mu EXCEPT ![m] = AfterStep(mu[m], kind, g) ]
           /\ scalers' = IF kind = "Unlock" /\ op = "Register"
                            THEN scalers \cup { "cpu" }
                          ELSE IF kind = "Unlock" /\ op = "Unregister"
                            THEN scalers \ { "cpu" }
                          ELSE scalers
           /\ \E next \in Following(op, pc[g].at, "cpu" \in scalers) :
                  pc' = [ pc EXCEPT ![g] = IF next > Len(Program(op))
                                           THEN Idle
                                           ELSE [ op |-> op, at |-> next ] ]
    /\ UNCHANGED notLockVars

NextLocks ==
    \/ \E g \in Goroutines : \E op \in CallsOf(g) : Invoke(g, op)
    \/ \E g \in Goroutines : Step(g)

\* A goroutine that can take its lock again and again does take it: a
\* waiting writer holds new readers off, and an unlock lets the waiting in.
SpecLocks ==
    /\ InitLocks
    /\ [][NextLocks]_vars
    /\ \A g \in Goroutines : SF_vars(Step(g))

\* ------------------------------------------- the lock of one window
\* One WeightedTimeWindow and the goroutines that call it.  A call is the
\* sequence of its lock operations and of its accesses to the window's
\* fields: << "read", field >> and << "write", field >> stand for the
\* statements that read or assign the field.

WindowGoroutines == { "first", "second" }

WindowCalls == { "Record", "WindowAverage", "IsEmpty", "ResizeWindow" }

\* The steps of a call on the window, in program order.
WindowProgram(op) ==
    IF op = "Record"
    THEN << << "announce", "mu" >>, << "Lock", "mu" >>,
            << "read", "lastWrite" >>, << "write", "firstWrite" >>,
            << "write", "lastWrite" >>, << "write", "buckets" >>,
            << "write", "windowTotal" >>, << "Unlock", "mu" >> >>
    ELSE IF op = "WindowAverage"
    THEN << << "RLock", "mu" >>,
            << "read", "lastWrite" >>,        \* isEmptyLocked
            << "read", "smoothingCoeff" >>, << "read", "buckets" >>,
            << "RUnlock", "mu" >> >>
    ELSE IF op = "IsEmpty"
    THEN << << "RLock", "mu" >>, << "read", "lastWrite" >>,
            << "RUnlock", "mu" >> >>
    ELSE \* WeightedTimeWindow.ResizeWindow: TimeWindow.ResizeWindow, and the
         \* coefficient of the new bucket count after it has returned
         << << "RLock", "mu" >>, << "read", "window" >>, << "RUnlock", "mu" >>,
            << "announce", "mu" >>, << "Lock", "mu" >>,
            << "read", "lastWrite" >>, << "read", "buckets" >>,
            << "write", "firstWrite" >>, << "write", "window" >>,
            << "write", "buckets" >>, << "write", "windowTotal" >>,
            << "Unlock", "mu" >>,
            << "write", "smoothingCoeff" >> >>

\* The steps that may follow step i of a call on the window; Len + 1 is the
\* return.
WindowFollowing(op, i) ==
    IF op = "Record" /\ i = 3
    THEN { 4, 6, 8 }     \* the same bucket again; a value older than a window
    ELSE IF op = "WindowAverage" /\ i = 2
    THEN { 3, 5 }        \* the window is empty
    ELSE IF op = "ResizeWindow" /\ i = 3
    THEN { 4, 13 }       \* the window has the size asked for
    ELSE IF op = "ResizeWindow" /\ i = 6
    THEN { 7, 8 }        \* the last write is not within the window
    ELSE { i + 1 }

\* The window's lock after goroutine g has made the step kind: an access
\* leaves the lock as it is.
AfterWindowStep(l, kind, g) ==
    IF kind \in { "read", "write" } THEN l ELSE AfterStep(l, kind, g)

notWindowLockVars == << clock, scalerVars, rec, call, historyVars, managerVars,
                       aggregatorVars, updates, twin, raceVars >>

\* Goroutine g calls op on the window.
WindowInvoke(g, op) ==
    /\ pc[g] = Idle
    /\ pc' = [ pc EXCEPT ![g] = [ op |-> op, at |-> 1 ] ]
    /\ UNCHANGED << notWindowLockVars, mu >>

\* Goroutine g makes the next step of its call, a lock operation once the
\* lock lets it, and goes on to a step that may follow, or returns.
WindowStep(g) ==
    /\ pc[g] # Idle
    /\ LET op   == pc[g].op
           step == WindowProgram(op)[pc[g].at]
       IN  /\ CanStep(mu.window, step[1], g)
           /\ mu' = [ mu EXCEPT !.window = AfterWindowStep(mu.window, step[1], g) ]
           /\ \E next \in WindowFollowing(op, pc[g].at) :
                  pc' = [ pc EXCEPT ![g] = IF next > Len(WindowProgram(op))
                                           THEN Idle
                                           ELSE [ op |-> op, at |-> next ] ]
    /\ UNCHANGED notWindowLockVars

InitWindowLocks ==
    /\ NewSlidingWindowAutoscaler(PlainConfig, 0)
    /\ NewManager(0, 0, {})
    /\ stableAggregator = << >>
    /\ burstAggregator = << >>
    /\ scall = NoScalerCall
    /\ updates = 0
    /\ twin = NoTwin
    /\ NoRace
    /\ mu = [ window |-> FreeLock ]
    /\ pc = [ g \in WindowGoroutines |-> Idle ]

NextWindowLocks ==
    \/ \E g \in WindowGoroutines, op \in WindowCalls : WindowInvoke(g, op)
    \/ \E g \in WindowGoroutines : WindowStep(g)

SpecWindowLocks == InitWindowLocks /\ [][NextWindowLocks]_vars

\* What the claims say of a call, in their own terms.

\* readyPods' = max(readyPods, 1).
ReadyOrOne == Max(call.readyPods, 1)

\* floor(ready / maxScaleDownRate) and ceil(maxScaleUpRate * ready).
RateFloor(ready) ==
    (ready * config.MaxScaleDownRate[2]) \div config.MaxScaleDownRate[1]

RateCeiling(ready) ==
    LET n == config.MaxScaleUpRate[1] * ready
        d == config.MaxScaleUpRate[2]
    IN  IF n % d = 0 THEN n \div d ELSE (n \div d) + 1

\* rawBurst / readyPods' >= burstThreshold.
OverThreshold ==
    call.rawBurst * config.BurstThreshold[2] >= config.BurstThreshold[1] * ReadyOrOne

\* A valid Scale call has just returned.
ValidCall == call.made /\ rec.ScaleValid

\* C1: across consecutive scale calls that all report inBurstMode = true,
\* desiredPodCount never decreases from one call to the next.
C1_NoScaleDownInBurst ==
    [][ (rec.ScaleValid /\ rec.InBurstMode /\ rec'.ScaleValid /\ rec'.InBurstMode)
            => rec'.DesiredPodCount >= rec.DesiredPodCount ]_vars

Delta == clock - call.prevBurstTime

\* C5: a scaler in burst mode that receives a valid, under-threshold scale
\* call with now - burstTime >= stableWindow exits burst mode in that call:
\* inBurstMode = false, burstTime unset, maxBurstPods = 0.
C5_ExitAtStableWindow ==
    (ValidCall /\ call.wasInBurst /\ ~OverThreshold /\ Delta >= config.StableWindow)
        => /\ ~rec.InBurstMode
           /\ burstTime = ZeroTime
           /\ maxBurstPods = 0

\* C6: a scaler in burst mode stays in burst mode on every valid scale call
\* that is over-threshold or has now - burstTime < stableWindow; every
\* over-threshold call sets burstTime to now; and a call that ends burst mode
\* comes no earlier than one stableWindow after the most recent
\* over-threshold call.
C6_StayInBurst ==
    ValidCall =>
        /\ (call.wasInBurst /\ (OverThreshold \/ Delta < config.StableWindow))
               => (rec.InBurstMode /\ burstTime # ZeroTime)
        /\ OverThreshold => burstTime = clock
        /\ (call.wasInBurst /\ ~rec.InBurstMode /\ call.prevLastOver # ZeroTime)
               => clock - call.prevLastOver >= config.StableWindow

\* C6 witness: an under-threshold call less than a stable window after an
\* over-threshold call leaves the scaler in burst mode.
C6_Witness ==
    /\ ValidCall /\ call.wasInBurst /\ ~OverThreshold
    /\ call.prevLastOver # ZeroTime
    /\ clock > call.prevLastOver
    /\ clock - call.prevLastOver < config.StableWindow
    /\ rec.InBurstMode

C9_ActivationOnlyWithDemand ==
    ValidCall =>
        /\ call.rawStable = 0 => call.desiredStable = call.limitedStable
        /\ call.rawBurst = 0 => call.desiredBurst = call.limitedBurst
        /\ ( /\ call.rawStable = 0 /\ call.rawBurst = 0
             /\ RateFloor(ReadyOrOne) = 0
             /\ call.prevMaxBurstPods = 0
             /\ config.MinScale = 0
             /\ config.ScaleDownDelay = 0 )
               => rec.DesiredPodCount = 0

\* C9 witness: an activation scale above 1 is configured, both raw demands
\* are 0 and the result is 0.
C9_Witness ==
    /\ ValidCall
    /\ config.ActivationScale > 1
    /\ call.rawStable = 0 /\ call.rawBurst = 0
    /\ rec.DesiredPodCount = 0

ValidDesired ==
    { mcall.recs[n].DesiredPodCount :
          n \in { m \in DOMAIN mcall.recs : mcall.recs[m].ScaleValid } }

\* C3: whenever at least one registered scaler returns a valid
\* recommendation, Manager.Scale returns the maximum desiredPodCount over the
\* valid recommendations, clamped to [minReplicas, maxReplicas], the upper
\* bound only when maxReplicas > 0.
C3_ManagerMaxFold ==
    (mcall.made /\ ValidDesired # {}) =>
        LET top == CHOOSE d \in ValidDesired : \A e \in ValidDesired : e <= d
            expected == IF maxReplicas > 0
                        THEN Min(Max(top, minReplicas), maxReplicas)
                        ELSE Max(top, minReplicas)
        IN  mcall.result = expected

\* C3 witness: of two scalers one is invalid and one valid, and the valid
\* count, above maxReplicas, is returned as maxReplicas.
C3_Witness ==
    /\ mcall.made
    /\ \E n \in DOMAIN mcall.recs : ~mcall.recs[n].ScaleValid
    /\ \E n \in DOMAIN mcall.recs :
           /\ mcall.recs[n].ScaleValid
           /\ mcall.recs[n].DesiredPodCount > maxReplicas
    /\ maxReplicas > 0
    /\ mcall.result = maxReplicas

\* C4: every valid scale result respects the hard bounds: desiredPodCount >=
\* minReplicas when minReplicas > 0 and desiredPodCount <= maxReplicas when
\* maxReplicas > 0, whatever burst mode, the activation floor or the
\* scale-down delay contributed.
C4_HardBounds ==
    ValidCall =>
        /\ config.MinScale > 0 => rec.DesiredPodCount >= config.MinScale
        /\ config.MaxScale > 0 => rec.DesiredPodCount <= config.MaxScale

\* C4 witness: the count the delay window hands on is above maxReplicas and
\* the result is maxReplicas.
C4_Witness ==
    /\ ValidCall
    /\ config.MaxScale > 0
    /\ call.delayed > config.MaxScale
    /\ rec.DesiredPodCount = config.MaxScale

\* A valid call on a scaler with a delay window has just returned.
DelayedCall == ValidCall /\ maxTimeWindow # << >>

\* The largest of the counts in h at the times of S, 0 if there is none.
Largest(h, S) ==
    LET counts == { h[t] : t \in S } \cup {0}
    IN  CHOOSE m \in counts : \A n \in counts : n <= m

\* The starts of the buckets in (trunc(now) - scaleDownDelay, trunc(now)].
BucketsHeld ==
    LET bucket == Truncate(clock, scaleDownDelayGranularity)
    IN  { t \in Times : /\ t % scaleDownDelayGranularity = 0
                        /\ t > bucket - config.ScaleDownDelay
                        /\ t <= bucket }

C11_HoldSteady ==
    (mcall.made /\ DOMAIN mcall.recs # {} /\ ValidDesired = {})
        => mcall.result = mcall.readyPods

\* C11 witness: no registered scaler is valid and the readyPods returned lie
\* outside the manager's bounds.
C11_Witness ==
    /\ mcall.made /\ DOMAIN mcall.recs # {} /\ ValidDesired = {}
    /\ mcall.result = mcall.readyPods
    /\ \/ mcall.readyPods < minReplicas
       \/ (maxReplicas > 0 /\ mcall.readyPods > maxReplicas)

\* filledBucketCount: min(bucketCount, (lastWrite - firstWrite) / granularity + 1).
FilledBucketCount(t) ==
    IF t.lastWrite = ZeroTime
    THEN 0
    ELSE Min(NumBuckets(t), ((t.lastWrite - t.firstWrite) \div t.granularity) + 1)

\* The sum of the k most recent buckets, the bucket of lastWrite the newest.
RECURSIVE MostRecentSum(_, _)
MostRecentSum(t, k) ==
    IF k = 0
    THEN 0
    ELSE t.buckets[(timeToIndex(t, t.lastWrite) - (k - 1)) % NumBuckets(t)]
         + MostRecentSum(t, k - 1)

\* C20: after any sequence of record calls on a BucketWindow (in order, out
\* of order, dropped, with gaps and with jumps), windowTotal equals the sum of
\* the filledBucketCount most-recent buckets.
C20_TotalConsistency ==
    stableAggregator.windowTotal
        = MostRecentSum(stableAggregator, FilledBucketCount(stableAggregator))

\* C20 witness: an out-of-order record has just gone into a window whose ring
\* has wrapped and whose newest bucket came after a gap.
C20_Witness ==
    /\ scall.op = "Record"
    /\ scall.t + WindowGeometry.granularity < stableAggregator.lastWrite
    /\ stableAggregator # scall.before
    /\ timeToIndex(stableAggregator, stableAggregator.lastWrite)
           >= NumBuckets(stableAggregator)
    /\ stableAggregator.buckets[timeToIndex(stableAggregator,
           stableAggregator.lastWrite - stableAggregator.granularity)
               % NumBuckets(stableAggregator)] = 0
    /\ stableAggregator.windowTotal > scall.value

\* A window holds in-window data at now: it was written, at most one window
\* before now.
InWindowData(t, now) ==
    /\ t.lastWrite # ZeroTime
    /\ Truncate(now, t.granularity) - t.lastWrite <= t.window

Fresh(t, kind, window) ==
    /\ t.kind = kind
    /\ t.window = window
    /\ t.lastWrite = ZeroTime
    /\ t.firstWrite = ZeroTime
    /\ t.windowTotal = 0
    /\ \A i \in DOMAIN t.buckets : t.buckets[i] = 0

\* C19: after a successful ChangeAggregationAlgorithm(kind) both aggregators
\* are fresh windows of that kind, with nothing of what was recorded before,
\* and a Scale call made before any new value is recorded returns an invalid
\* recommendation.
C19_FreshAfterSwitch ==
    /\ [](scall.op = "ChangeAggregationAlgorithm" /\ scall.ok
             => /\ Fresh(stableAggregator, scall.algoType, config.StableWindow)
                /\ Fresh(burstAggregator, scall.algoType, BurstWindow(config)))
    /\ [][scall.op = "ChangeAggregationAlgorithm" /\ scall.ok /\ scall'.op = "Scale"
             => ~rec'.ScaleValid]_vars

\* The kind is switched on a scaler that had data enough for a valid
\* recommendation.
C19_Witness ==
    /\ scall.op = "ChangeAggregationAlgorithm"
    /\ scall.ok
    /\ scall.algoType = "weighted"
    /\ rec.ScaleValid
    /\ rec.DesiredPodCount > 1

\* C18: a newly constructed scaler is in burst mode, with burstTime the time
\* of construction and maxBurstPods = initialReplicas, exactly when
\* initialReplicas > 1; otherwise it is outside burst mode with maxBurstPods 0.
C18_BornInBurstIffReplicas ==
    scall.op = "NewScaler" =>
        IF scall.initialReplicas > 1
        THEN burstTime = scall.now /\ maxBurstPods = scall.initialReplicas
        ELSE burstTime = ZeroTime /\ maxBurstPods = 0

\* C16: an Update that fails validation leaves the scaler as it was: config,
\* burst state, delay window and both aggregators with their spans.
C16_NoPartialUpdate ==
    (scall.op = "Update" /\ ~scall.ok) => ScalerFields = scall.before

\* An invalid configuration is rejected on a scaler in burst mode that has
\* recorded values and holds a count in its delay window.
C16_Witness ==
    /\ scall.op = "Update"
    /\ ~scall.ok
    /\ scall.requested # config
    /\ burstTime # ZeroTime
    /\ maxBurstPods > 0
    /\ maxTimeWindow # << >>
    /\ rec.ScaleValid
    /\ stableAggregator.windowTotal > 0

\* C17: after a successful Update the delay window follows the new
\* ScaleDownDelay: there is a window, of that span, exactly when the delay is
\* positive, and with a delay of 0 no earlier count holds the result up: the
\* count Scale decided on is the count it returns, the hard bounds apart.
C17_DelayWindowFollowsConfig ==
    /\ (scall.op = "Update" /\ scall.ok)
           => IF config.ScaleDownDelay > 0
              THEN /\ maxTimeWindow # << >>
                   /\ maxTimeWindow[1].numSlots
                         = Ceil(config.ScaleDownDelay, scaleDownDelayGranularity)
              ELSE maxTimeWindow = << >>
    /\ (ValidCall /\ config.ScaleDownDelay = 0) => call.delayed = call.tentative

\* C13: two runs given the same configuration, the same sequence of
\* snapshots, ready pod counts and times return the same recommendations.
C13_SameOutputs ==
    twin # NoTwin => twin.rec = rec

\* C14: concurrent Record and Scale calls on one scaler are linearizable:
\* the recommendation a Scale call returns is the one of some order of the
\* calls in which every Record takes effect on both aggregators at once.
C14_Linearizable ==
    (scall.op = "Scale" /\ linearized # << >>) => rec \in scall.allowed

\* C15: whatever the interleaving of concurrent Record, Scale, SetMinScale,
\* SetMaxScale, Register, Unregister, ChangeAggregationAlgorithm and Update
\* calls, every call returns.
C15_EveryCallReturns ==
    \A g \in Goroutines : (pc[g] # Idle) ~> (pc[g] = Idle)

\* Scale holds the manager's lock for reading and waits for the algorithm's
\* lock, which Update holds, while a writer waits for the manager's lock and
\* Record for an aggregator's.
C15_Witness ==
    /\ pc # << >>
    /\ "scaler" \in mu["manager"].readers
    /\ "scaler" \in mu["algorithm"].waiting
    /\ mu["algorithm"].writer = "reconfigurer"
    /\ "operator" \in mu["manager"].waiting
    /\ pc["recorder"].op = "Record" /\ pc["recorder"].at > 2

\* ------------------------------------------------- the window's contract

\* Two windows answer every query alike: the same emptiness and the same
\* average (as fractions) at every now.
SameQueries(a, b) ==
    \A now \in QueryTimes :
        /\ IsEmpty(a, now) = IsEmpty(b, now)
        /\ LET x == WindowAverage(a, now)
               y == WindowAverage(b, now)
           IN  x[1] * y[2] = y[1] * x[2]

\* The Record call just made came more than a window before the last write.
RecordedTooOld ==
    /\ scall.op = "Record"
    /\ scall.before.lastWrite # ZeroTime
    /\ scall.t < scall.before.lastWrite - scall.before.window

\* C21: recording a value at a time t < lastWrite - windowSpan changes
\* nothing: buckets, windowTotal, firstWrite and lastWrite are left as they
\* were, so the average and the emptiness at every now are unchanged.
C21_OutOfWindowDrop ==
    RecordedTooOld =>
        /\ stableAggregator.buckets = scall.before.buckets
        /\ stableAggregator.windowTotal = scall.before.windowTotal
        /\ stableAggregator.firstWrite = scall.before.firstWrite
        /\ stableAggregator.lastWrite = scall.before.lastWrite
        /\ SameQueries(stableAggregator, scall.before)

\* C21 witness: a value was recorded more than a window before the last
\* write of a window that holds data in more than one bucket.
C21_Witness ==
    /\ RecordedTooOld
    /\ scall.before.firstWrite < scall.before.lastWrite
    /\ scall.before.windowTotal > 0

\* The Record call just made was for a bucket before the one of the last
\* write, by less than a window.
RecordedOutOfOrder ==
    /\ scall.op = "Record"
    /\ scall.before.lastWrite # ZeroTime
    /\ Truncate(scall.t, scall.before.granularity) < scall.before.lastWrite
    /\ scall.before.lastWrite - Truncate(scall.t, scall.before.granularity)
           < scall.before.window

\* The window as it would be had the values of the log come in timestamp order.
InTimestampOrder ==
    Replay(MetricsNewTimeWindow("linear", WindowGeometry.window,
                                WindowGeometry.granularity), scall.log)

\* C22: a value recorded at a time before the bucket of the last write by
\* less than one window span is added into its own bucket and into
\* windowTotal, and the window then answers every query as it would had the
\* same values been recorded in timestamp order.
C22_OutOfOrderAdditive ==
    RecordedOutOfOrder =>
        LET slot == timeToIndex(scall.before, scall.t) % NumBuckets(scall.before)
        IN  /\ stableAggregator.buckets =
                   [ scall.before.buckets EXCEPT ![slot] = @ + scall.value ]
            /\ stableAggregator.windowTotal = scall.before.windowTotal + scall.value
            /\ stableAggregator.lastWrite = scall.before.lastWrite
            /\ SameQueries(stableAggregator, InTimestampOrder)

\* gapBuckets: the buckets between the last write and now's bucket.
GapBuckets(t, now) == (Truncate(now, t.granularity) - t.lastWrite) \div t.granularity

\* now is after the last write by less than a window.
InSilentGap(t, now) ==
    /\ t.lastWrite # ZeroTime
    /\ 0 < now - t.lastWrite
    /\ now - t.lastWrite < t.window

\* C23: for 0 < now - lastWrite < windowSpan, average(now) is windowTotal
\* less the buckets that lie in the silent gap after the last write (which
\* leaves the sum of the bucketCount - gapBuckets most recent buckets),
\* divided by min(filledBucketCount, bucketCount - gapBuckets).
C23_GapAverage ==
    \A now \in QueryTimes :
        InSilentGap(stableAggregator, now) =>
            LET t    == stableAggregator
                kept == NumBuckets(t) - GapBuckets(t, now)
                avg  == WindowAverage(t, now)
            IN  /\ avg[2] = Min(FilledBucketCount(t), kept)
                /\ avg[1] = MostRecentSum(t, kept)
                /\ avg[1] = t.windowTotal
                               - (MostRecentSum(t, NumBuckets(t)) - MostRecentSum(t, kept))

\* C23 witness: a full window is asked for its average two buckets after its
\* last write, and the two buckets in the gap hold values.
C23_Witness ==
    /\ stableAggregator.lastWrite # ZeroTime
    /\ FilledBucketCount(stableAggregator) = NumBuckets(stableAggregator)
    /\ LET now == stableAggregator.lastWrite + 2 * stableAggregator.granularity + 1
       IN  /\ InSilentGap(stableAggregator, now)
           /\ GapBuckets(stableAggregator, now) = 2
           /\ MostRecentSum(stableAggregator, 1) > 0
           /\ MostRecentSum(stableAggregator, 1) < stableAggregator.windowTotal

\* No Record call has been made on the window.
NothingRecorded == scall.op = "none"

RecordedAfterJump ==
    /\ scall.op = "Record"
    /\ JumpsAWindow(scall.before, scall.t)

\* A window that was given nothing but the values recorded from the latest
\* jump on.
OnlySinceJump ==
    Replay(MetricsNewTimeWindow("linear", WindowGeometry.window,
                                WindowGeometry.granularity), scall.sinceJump)

\* C25: a record whose bucket is later than lastWriteBucket by windowSpan or
\* more zeroes every bucket and sets first and last write to the new bucket,
\* leaving only its own value; from then on windowTotal, the buckets and
\* every average are those of a window that was given only the values
\* recorded from the jump on.
C25_JumpResetsHistory ==
    /\ RecordedAfterJump =>
           LET bucket == Truncate(scall.t, stableAggregator.granularity)
               slot   == timeToIndex(stableAggregator, scall.t)
                             % NumBuckets(stableAggregator)
           IN  /\ stableAggregator.buckets =
                      [ i \in DOMAIN stableAggregator.buckets |->
                            IF i = slot THEN scall.value ELSE 0 ]
               /\ stableAggregator.windowTotal = scall.value
               /\ stableAggregator.firstWrite = bucket
               /\ stableAggregator.lastWrite = bucket
    /\ scall.sinceJump # << >> =>
           /\ stableAggregator.buckets = OnlySinceJump.buckets
           /\ stableAggregator.windowTotal = OnlySinceJump.windowTotal
           /\ SameQueries(stableAggregator, OnlySinceJump)

\* C25 witness: a window holding values took a record exactly one window
\* after its last write, and then one more record.
C25_Witness ==
    /\ scall.op = "Record"
    /\ Len(scall.sinceJump) = 2
    /\ Len(scall.log) = 3
    /\ scall.sinceJump[1][1] = scall.log[1][1] + WindowGeometry.window
    /\ scall.sinceJump[2][1] < scall.sinceJump[1][1]
    /\ stableAggregator.windowTotal = scall.sinceJump[1][2] + scall.sinceJump[2][2]

\* C26: resize is idempotent: after resize(w); resize(w) the window is as
\* the first resize(w) left it, and every query (the average and the
\* emptiness at any now) returns the same answer.
C26_IdempotentResize ==
    (scall.op = "Resize" /\ scall.again) =>
        /\ stableAggregator = scall.before
        /\ SameQueries(stableAggregator, scall.before)

\* C26 witness: a window holding values in two buckets or more was resized to
\* another size, and resized to that size again.
C26_Witness ==
    /\ scall.op = "Resize"
    /\ scall.again
    /\ scall.newWindow # WindowGeometry.window
    /\ stableAggregator.windowTotal > 0
    /\ \E i, j \in DOMAIN stableAggregator.buckets :
           i # j /\ stableAggregator.buckets[i] > 0 /\ stableAggregator.buckets[j] > 0

\* ------------------------------------------- the delay window's contract

\* The slots of dw whose timestamp falls in (now - span, now].
SlotsInSpan(dw, span, now) ==
    { i \in 0..(dw.numSlots - 1) : /\ dw.slotTimes[i] # ZeroTime
                                   /\ dw.slotTimes[i] > now - span
                                   /\ dw.slotTimes[i] <= now }

\* The largest value among the slots S of dw, 0 if there is none.
LargestSlot(dw, S) ==
    LET values == { dw.slots[i] : i \in S } \cup {0}
    IN  CHOOSE m \in values : \A n \in values : n <= m

\* C27 as stated: max(now) returns the largest value among the buckets whose
\* timestamp falls in (now - span, now], and 0 if there is none, now being
\* the time the maximum is asked for.
C27_MaxOverSpanAsStated ==
    scall.op = "CurrentMax" =>
        LET dw == maxTimeWindow[1]
        IN  scall.result = LargestSlot(dw, SlotsInSpan(dw, dw.windowSize, scall.now))

\* C27, amended: the maximum returned is the largest value among the buckets
\* whose timestamp falls in (last - span, last], last being the latest time
\* recorded truncated to the granularity (or any time in its bucket), and 0
\* if there is none or nothing was recorded; values whose bucket timestamp
\* is span or more before last never contribute.
C27_MaxOverSpanOfLastRecord ==
    scall.op = "CurrentMax" =>
        LET dw == maxTimeWindow[1]
        IN  IF dw.lastRecordedTime = ZeroTime
            THEN scall.result = 0
            ELSE \A now \in dw.lastRecordedTime..(dw.lastRecordedTime + dw.granularity - 1) :
                     scall.result = LargestSlot(dw, SlotsInSpan(dw, dw.windowSize, now))

\* C27 witness: the maximum is asked of a window in which a slot written a
\* span or more before the latest record holds a larger value than the one
\* returned, which is not 0.
C27_Witness ==
    /\ scall.op = "CurrentMax"
    /\ scall.result > 0
    /\ LET dw == maxTimeWindow[1]
       IN  \E i \in 0..(dw.numSlots - 1) :
               /\ dw.slotTimes[i] # ZeroTime
               /\ dw.slotTimes[i] <= dw.lastRecordedTime - dw.windowSize
               /\ dw.slots[i] > scall.result

\* The slots of dw that hold a value: those with a timestamp.
WrittenSlots(dw) == { i \in 0..(dw.numSlots - 1) : dw.slotTimes[i] # ZeroTime }

\* The <<timestamp, value>> held in the slots S of dw.
Entries(dw, S) == { << dw.slotTimes[i], dw.slots[i] >> : i \in S }

\* C28: resize keeps exactly the values whose bucket timestamp is still
\* inside the new span (which ends at the latest recorded time), each at the
\* index its own timestamp determines in the new ring, and drops the
\* out-of-window values; the maximum after the resize is the maximum of the
\* surviving values.
C28_ResizeKeepsInSpan ==
    scall.op = "Resize" =>
        LET old       == scall.before[1]
            new       == maxTimeWindow[1]
            survivors == SlotsInSpan(old, scall.result, old.lastRecordedTime)
        IN  /\ new.windowSize = scall.result
            /\ Entries(new, WrittenSlots(new)) = Entries(old, survivors)
            /\ \A j \in WrittenSlots(new) :
                   j = (new.slotTimes[j] \div new.granularity) % new.numSlots
            /\ CurrentMax(new) = LargestSlot(old, survivors)

\* ------------------------------------------ emptiness against the average

\* The average of t at now is taken over one recorded bucket or more: the
\* last write is less than a window before now's bucket.
AveragedOverData(t, now) ==
    /\ t.lastWrite # ZeroTime
    /\ Truncate(now, t.granularity) - t.lastWrite < t.window

\* C29: whenever a window reports isEmpty(now) = false, its average at now is
\* computed over at least one recorded in-window bucket; so a Scaler never
\* builds a valid snapshot from a no-data average of 0, the case
\* now - lastWriteBucket = windowSpan included.
C29_NotEmptyMeansData ==
    scall.op = "Scale" =>
        /\ \A t \in { stableAggregator, burstAggregator } :
               ~IsEmpty(t, scall.now) => AveragedOverData(t, scall.now)
        /\ rec.ScaleValid => /\ AveragedOverData(stableAggregator, scall.now)
                             /\ AveragedOverData(burstAggregator, scall.now)

\* ------------------------------------------------ the manager's envelope

\* The value returned by the Manager.Scale call just made lies within
\* [minReplicas, maxReplicas], the upper bound only when maxReplicas > 0.
InEnvelope ==
    /\ mcall.result >= minReplicas
    /\ maxReplicas > 0 => mcall.result <= maxReplicas

\* C30 as stated: every value returned by Manager.Scale lies within the
\* manager's envelope, including when no registered scaler gives a valid
\* recommendation.
C30_AlwaysInEnvelope ==
    mcall.made => InEnvelope

\* C30: the value returned by Manager.Scale lies within the manager's
\* envelope when no scaler is registered or at least one registered scaler
\* gives a valid recommendation; when scalers are registered and none gives a
\* valid recommendation, the value is readyPods, inside the envelope or not.
C30_EnvelopeUnlessHeld ==
    mcall.made =>
        IF DOMAIN mcall.recs = {} \/ ValidDesired # {}
        THEN InEnvelope
        ELSE mcall.result = mcall.readyPods

\* C30 witness: every valid recommendation lies below minReplicas and the
\* value returned is minReplicas, under a positive maxReplicas.
C30_Witness ==
    /\ mcall.made
    /\ ValidDesired # {}
    /\ \A d \in ValidDesired : d < minReplicas
    /\ maxReplicas > 0
    /\ mcall.result = minReplicas

\* ------------------------------------- an update that asks for the same delay

\* The count the first Scale call at the present time returns for a snapshot
\* of a steady value, were w the delay window.
NextDelayed(w, readyPods, value) ==
    ScaleOutcome(config, burstTime, maxBurstPods, w,
                 NewMetricSnapshot(<< value, 1 >>, << value, 1 >>, readyPods),
                 clock).rec.DesiredPodCount

\* C31: a successful update whose scaleDownDelay is positive and equal to the
\* current one keeps the delay window's recorded values: a desired count that
\* the scale-down delay was holding before the update is still held by the
\* first scale call after it.
C31_SameDelayKeepsHeld ==
    (/\ scall.op = "Update" /\ scall.ok /\ ~call.made
     /\ config.ScaleDownDelay > 0 /\ scall.held # << >>)
        => /\ CurrentMax(maxTimeWindow[1]) = CurrentMax(scall.held[1])
           /\ \A readyPods \in 0..MaxReady, value \in 0..MaxSteady :
                  NextDelayed(maxTimeWindow, readyPods, value)
                      = NextDelayed(scall.held, readyPods, value)

\* ------------------------------------------------ what a ring slot stands for

\* The Record call just made came at bucket time lastWrite - window or
\* earlier: at no bucket time a slot of the ring stood for.
RecordedOffTheRing ==
    /\ scall.op = "Record"
    /\ scall.before.lastWrite # ZeroTime
    /\ Truncate(scall.t, scall.before.granularity) + scall.before.window
           <= scall.before.lastWrite

\* C32: a ring slot only ever accumulates values recorded at the bucket time
\* the slot currently stands for: a record at lastWrite - window, which maps
\* to the ring index of the newest bucket, or earlier is not added into any
\* bucket's sum, the newest bucket's included.
C32_SlotKeepsItsBucket ==
    RecordedOffTheRing =>
        /\ stableAggregator.buckets = scall.before.buckets
        /\ stableAggregator.windowTotal = scall.before.windowTotal

\* ------------------------------------------------------ resizing to more

\* The ResizeWindow call just made asked for a larger window while the last
\* write was within the old one.
ResizedToLarger ==
    /\ scall.op = "Resize"
    /\ scall.within
    /\ scall.newWindow > scall.before.window

\* C33: resizing a window to a larger span while its last write is still
\* within the old window does not change the average at any now up to the
\* last write: the recorded bucket sums and the filled-bucket count used as
\* divisor are both preserved.
C33_LargerKeepsAverage ==
    ResizedToLarger =>
        /\ stableAggregator.windowTotal = scall.before.windowTotal
        /\ FilledBucketCount(stableAggregator) = FilledBucketCount(scall.before)
        /\ \A now \in { n \in QueryTimes : n <= stableAggregator.lastWrite } :
               LET x == WindowAverage(stableAggregator, now)
                   y == WindowAverage(scall.before, now)
               IN  x[1] * y[2] = y[1] * x[2]

\* ------------------------------------------------------------ scale to zero

\* C34: with MinScale = 0, if from some call on every observation is a valid
\* 0, the now passed to Scale keeps advancing and each call's readyPods is
\* the recommendation before it, then after finitely many calls the
\* recommendation reaches 0 and stays 0: neither burst mode, the one the
\* scaler is born in included, nor the scale-down delay holds it above 0
\* forever.
C34_ScaleToZero ==
    <>[](scall.op = "zero" /\ rec.ScaleValid /\ rec.DesiredPodCount = 0)

\* C34 witness: the load fell while the scaler, in burst mode, recommended
\* two pods or more, and a later call with no ready pod left, out of burst
\* mode, recommends 0.
C34_Witness ==
    /\ scall.op = "zero"
    /\ scall.inBurst /\ scall.peak >= 2
    /\ call.made /\ call.readyPods = 0
    /\ burstTime = ZeroTime
    /\ rec.ScaleValid /\ rec.DesiredPodCount = 0

\* ------------------------------------------- a delay window recorded into late

\* The step is a Record call on the delay window that comes a window span or
\* more before the latest recorded time.
RecordedBeforeSpan ==
    /\ scall'.op = "Record"
    /\ maxTimeWindow[1].lastRecordedTime # ZeroTime
    /\ Truncate(scall'.now, scaleDownDelayGranularity) + maxTimeWindow[1].windowSize
           <= maxTimeWindow[1].lastRecordedTime

\* C35: recording into a delay window at a timestamp older than the window
\* (a span or more before the latest recorded time) never changes the
\* maximum: it does not overwrite the in-window value that shares its slot.
C35_LateRecordKeepsMax ==
    [][ RecordedBeforeSpan => CurrentMax(maxTimeWindow'[1]) = CurrentMax(maxTimeWindow[1]) ]_vars

\* ------------------------------------- a value in one aggregator only

\* C36: after any interleaving of Record and ChangeAggregationAlgorithm
\* calls on one scaler, every recorded value is in both of the scaler's
\* current aggregators or in neither.  The values are recorded at one time,
\* within both windows: with no call under way the two aggregators hold the
\* same total.
C36_BothOrNeither ==
    (recordThread.pc = "idle" /\ pc.pc = "idle")
        => stableAggregator.windowTotal = burstAggregator.windowTotal

\* ------------------------------------------------- a well-formed envelope

\* C37: after NewManager and any sequence of SetMinScale and SetMaxScale
\* calls with arbitrary integer arguments, negative ones included, the
\* envelope is well-formed: minReplicas >= 0, maxReplicas >= 0, and
\* maxReplicas = 0 or minReplicas <= maxReplicas.
C37_WellFormedEnvelope ==
    /\ minReplicas >= 0
    /\ maxReplicas >= 0
    /\ maxReplicas = 0 \/ minReplicas <= maxReplicas

\* ------------------------------------------------- accesses under the lock

\* Goroutine g is about to read (write) a field of the window.
AboutTo(g, kind) ==
    /\ pc[g] # Idle
    /\ WindowProgram(pc[g].op)[pc[g].at][1] = kind

\* C38: every read and write of a window's internal state (buckets,
\* windowTotal, first and last write, span, smoothingCoeff) happens while
\* that window's lock is held: a write under the write lock, a read under
\* the read lock or the write lock.
C38_AccessesUnderLock ==
    \A g \in WindowGoroutines :
        /\ AboutTo(g, "write") => mu.window.writer = g
        /\ AboutTo(g, "read") => (g \in mu.window.readers \/ mu.window.writer = g)

\* ---------------------------------------------------------- one target mode

\* C39: at every moment a scaler's config has exactly one of TargetValue and
\* TotalTargetValue positive: construction and update never allow both or
\* neither, so Scale never computes raw demand with no target mode chosen.
C39_OneTargetMode ==
    (config.TargetValue > 0) # (config.TotalTargetValue > 0)

\* C39 witness: an update that set neither target, or both, was rejected, and
\* the scaler has made a valid Scale call since.
C39_Witness ==
    /\ scall.op = "Update" /\ ~scall.ok
    /\ (scall.requested.TargetValue > 0) = (scall.requested.TotalTargetValue > 0)
    /\ call.made /\ rec.ScaleValid
    /\ config.TotalTargetValue > 0

====
